---- MODULE Spec2Model ----
(***************************************************************************)
(* A model of the VoIP application's media plane and signaling fabric:     *)
(*   - JitterBuffer      (src/network/jitter_buffer.py)                    *)
(*   - VoIPServer relay  (src/network/server.py, udp_socket.py)            *)
(*   - SignalingServer   (src/network/signaling.py)                        *)
(* Times, delays and the jitter estimate are integers in units of 1/16 of  *)
(* 100 ms (6.25 ms); the code uses float seconds. Products and quotients   *)
(* are rounded down to the unit.                                           *)
(***************************************************************************)
EXTENDS Integers, Sequences, FiniteSets, TLC

(***************************************************************************)
(* Bounds of the model.                                                    *)
(***************************************************************************)
\* sequence numbers offered to add_packet are 0..MaxSeq
MaxSeq == 2
\* the clock advances at most MaxTicks times, by 100 ms = 16 units each time
MaxTicks == 1

\* the call-by-call specification offers add_packet the sequences 0..MaxCallSeq
MaxCallSeq == 3
\* the fill-then-drain scenario inserts sequences from 0..MaxDrainSeq
MaxDrainSeq == 3

SeqNums == 0..MaxSeq
CallSeqNums == 0..MaxCallSeq
DrainSeqNums == 0..MaxDrainSeq
\* constructor argument max_size of the fill-then-drain scenario
DrainMaxSizes == {1, 2, 3}
\* payloads: two distinct byte strings
Payloads == {1, 2}
\* constructor arguments JitterBuffer(max_size=.., min_size=..)
MaxSizes == {1, 2}
MinSizes == {1, 2}
TickSteps == {16}
\* constructor argument max_delay of the delay-adaptation scenario: 50 ms,
\* 150 ms and the default
MaxDelays == {8, 24, 80}
\* a pause of 2 s between two arrivals
PauseSteps == {320}

(***************************************************************************)
(* Program constants (jitter_buffer.py __init__).                          *)
(***************************************************************************)
\* self.target_delay = 0.1 (seconds) = 16 units
target_delay == 16
\* self.adaptation_rate = 0.1, in percent
adaptation_rate == 10
\* max_delay: float = 0.5 (seconds) = 80 units
default_max_delay == 80
\* self.last_sequence = -1: no sequence observed yet
NoSequence == -1

VARIABLES
    jb,         \* the JitterBuffer object: its fields
    now,        \* time.time()
    emitted,    \* the last payload get_next_packet returned since construction /
                \* reset: its sequence and data, and the sequence returned before it
    lastCall,   \* the last add_packet call: its arguments and what it returned
    lock,       \* self.lock of the JitterBuffer: Free or the thread holding it
    thr,        \* per thread: the JitterBuffer method it is executing and where
    phase,      \* fill-then-drain scenario: "off", "insert", "drain" or "done"
    arrivals,   \* fill-then-drain scenario: sequences inserted, in arrival order
    drained,    \* fill-then-drain scenario: sequences returned, in order
    clients,    \* VoIPServer.clients: the dict's entries in insertion order
    rx,         \* the relay's receive worker: idle, or where its fanout loop is
    fan,        \* the datagram being handled: source, payload, registry keys on
                \* receipt, the sends attempted for it, whether handling is over
    seen,       \* what the relay was told: the addresses that sent a datagram or
                \* were the client argument of add_peer and were not removed
                \* since, and the keys removed that did not send since
    conn,       \* per signaling connection: state of its worker and its client_id
    sigClients, \* SignalingServer.clients: pairs <<name, connection>>
    callbacks,  \* SignalingServer.callbacks: the message types with a callback
    latest,     \* per name: the open connection that registered it last
    lastReg,    \* the REGISTER handled last, if the registry is as it left it
    handled,    \* the message handled last by _handle_message and its outcome
    first,      \* the first input of a connection that was refused last, and
                \* what the server did with it
    rxJson,     \* a JSON document received on a signaling connection
    message,    \* SignalingMessage.from_json of it: the object, or an exception
    txJson,     \* message.to_json(): the JSON document written to the recipient
    udp,        \* one UDPSocket: its fields, its receive worker, a stop() call
    session,    \* VoIPTest.run: the counters of the send loop and what it sent
    fh,         \* one FrameHandler: its fields and the frames it made and took
    vc,         \* one VoIPClient with the audio callback of VoIPTest: counters,
                \* the datagram built or received last, what the callback got
    played,     \* playout pacing: when get_next_packet returned its last two
                \* payloads, the delay in force, whether a reset came between
    enc,        \* one AudioEncryption: its fields, the plaintext encrypted last,
                \* what encrypt returned for it and what decrypt made of that
    longrun,    \* VoIPTest.run after some 2^32 packets: the two sequence
                \* counters, and per direction the sequence sent last
    sigstop,    \* one SignalingServer seen step by step: self.clients in
                \* insertion order, the sockets, the workers, a stop() call
    sc,         \* one SignalingClient and the server's side of its connection:
                \* connect(), the receive loop, what was sent to it and got
    us          \* one UDPSocket with every worker thread it ever started: the
                \* start_receiving calls, the workers, the callback invocations

jbVars == <<jb, now, emitted, lastCall>>
lockVars == <<lock, thr>>
drainVars == <<phase, arrivals, drained>>
relayVars == <<clients, rx, fan, seen>>
sigVars == <<conn, sigClients, callbacks, latest, lastReg, handled, first>>
codecVars == <<rxJson, message, txJson>>
\* the variables of the scenarios that stand alone
\* the variables of the later scenarios, and for each scenario all other
\* variables
lateVars == <<enc, longrun, sigstop, sc, us>>
moreVars == <<played, vc, lateVars>>
oldVars == <<jb, now, emitted, lastCall, lock, thr, phase, arrivals, drained,
             clients, rx, fan, seen, conn, sigClients, callbacks, latest, lastReg, handled,
             first, rxJson, message, txJson, udp, session, fh>>
extraVars == <<codecVars, udp, session, fh, moreVars>>
\* the variables of the jitter buffer and of the two servers
coreVars == <<jbVars, lockVars, drainVars, relayVars, sigVars>>
\* all but the jitter buffer's variables, and all but the servers' variables
netVars == <<relayVars, sigVars, extraVars>>
bufVars == <<jbVars, lockVars, drainVars, extraVars>>

vars == <<jb, now, emitted, lastCall, lock, thr, phase, arrivals, drained,
          clients, rx, fan, seen, conn, sigClients, callbacks, latest, lastReg, handled, first,
          rxJson, message, txJson, udp, session, fh, played, vc, lateVars>>

\* threads calling into one JitterBuffer
Threads == {"producer", "consumer"}
\* threading.Lock() not held
Free == "free"
Idle == [op |-> "idle", seq |-> -1]

\* UDPSocket(): bound, not receiving; no datagram has arrived, stop() has not
\* been called
NoDatagram == 0
NoError == 0 - 1
NewUDPSocket ==
    [is_running |-> FALSE, socket |-> "open", callback |-> FALSE,
     receive_thread |-> "none", data |-> NoDatagram, stop |-> "idle",
     buffer |-> <<>>, arrived |-> 0, delivered |-> <<>>, packet_queue |-> <<>>,
     errors |-> 0, lastErr |-> NoError]
UdpIdle == udp = NewUDPSocket

\* VoIPTest(): both directions start at sequence 0, nothing captured or sent
NewVoIPTest ==
    [passes |-> 0, next_sequence1 |-> 0, next_sequence2 |-> 0,
     frames_captured1 |-> 0, frames_captured2 |-> 0,
     sent1 |-> <<>>, sent2 |-> <<>>]
SessionIdle == session = NewVoIPTest

\* FrameHandler(codec) of a mono 16 kHz codec, nothing created or added
frame_size == 320
Rates == {16000, 8000}
Channels == {1, 2}
NoFrame == [len |-> 0, timestamp |-> 0, sequence_number |-> 0 - 1, sample_rate |-> 0,
            channels |-> 0, frame_size |-> 0, is_silence |-> FALSE]
\* clock is time.time(); created, made, offered and accepted record the
\* results of create_frame and add_frame
NewFrameHandler(rate, channels) ==
    [rate |-> rate, channels |-> channels, frame_size |-> frame_size,
     frame_count |-> 0, frame_buffer |-> <<>>, jitter_buffer |-> <<>>,
     current_jitter |-> 0, clock |-> 0,
     created |-> <<>>, made |-> NoFrame, offered |-> NoFrame, accepted |-> FALSE]
FramesIdle == fh = NewFrameHandler(16000, 1)

\* no JSON document, no message object
NoJson == [type |-> "none", sender |-> "none", recipient |-> "none", data |-> "none"]
NoObj == [type |-> "none", sender |-> "none", recipient |-> "none", data |-> "none"]
CodecIdle == rxJson = NoJson /\ message = NoObj /\ txJson = NoJson
\* no payload has been returned
NoPlay == 0 - 1
NotPlayed == [at |-> NoPlay, gap |-> NoPlay, delay |-> 0, across |-> FALSE, reset |-> FALSE]
PlayedIdle == played = NotPlayed
\* VoIPClient(): nothing sent or received; env and wire are the envelope given
\* to send_audio last and the datagram built from it, got is what the audio
\* callback was handed last, rx says what kind of datagram was handled last
NoEnvelope == [encrypted |-> <<>>, iv |-> <<>>, sequence |-> 0 - 1]
NoWire == [kind |-> "none"]
NewVoIPClient ==
    [packets_sent |-> 0, packets_received |-> 0,
     env |-> NoEnvelope, wire |-> NoWire, got |-> NoEnvelope, rx |-> "none",
     audio |-> "none", dropped |-> FALSE]
ClientIdle == vc = NewVoIPClient
\* bytes are scaled to one bit and the sixteen bytes of an AES block to two
Symbols == 0..1
BlockLen == 2
\* decrypt's None, and no bytes at all
NoBytes == <<0 - 1>>
\* Crypto.Protocol.KDF.PBKDF2(key, salt, ...): a value depending on both
PBKDF2(key, salt) == (2 * key + salt + 1) % 4
\* AudioEncryption(key): salt and iv are drawn at random, the key is derived
NewAudioEncryption(key, salt, iv) ==
    [key |-> key, salt |-> salt, iv |-> iv, derived_key |-> PBKDF2(key, salt),
     plain |-> <<>>, encrypted |-> <<>>, sent_iv |-> <<>>, used_iv |-> <<>>,
     out |-> NoBytes, op |-> "none", rekeyed |-> FALSE]
CryptoIdle == enc = NewAudioEncryption(0, 0, <<0, 0>>)
\* a Python int is kept as two digits to the base 2^16, the upper one
\* unbounded: numbers from 2^31 on are beyond the checker's own integers
Limb == 65536
WideInt(hi, lo) == [hi |-> hi, lo |-> lo]
NoWide == WideInt(0 - 1, 0)
\* VoIPTest(): both counters 0, nothing sent
NewLongRun(n1, n2) ==
    [passes |-> 0, next_sequence1 |-> n1, next_sequence2 |-> n2,
     sent1 |-> NoWide, sent2 |-> NoWide, was1 |-> NoWide, was2 |-> NoWide]
LongRunIdle == longrun = NewLongRun(WideInt(0, 0), WideInt(0, 0))
\* stop() has not been called
NotStopping == [pc |-> "no", pos |-> 0, used |-> 0, len |-> 0, bound |-> {}]
\* SignalingServer() after start(): listening, no connection accepted yet;
\* worker maps a connection to the name its worker thread registered
NewSignalingServer ==
    [clients |-> <<>>, open |-> {}, worker |-> <<>>, listening |-> TRUE,
     is_running |-> TRUE, stop |-> NotStopping]
SigStopIdle == sigstop = NewSignalingServer
\* SignalingClient(host, port, client_id) with a callback registered for
\* the type of the messages it will get; connect() not called yet
NewSignalingClient ==
    [client |-> "new", is_running |-> FALSE, loop |-> "none", server |-> "none",
     inbox |-> <<>>, sent |-> 0, dropped |-> 0, got |-> 0, bad |-> FALSE]
SigClientIdle == sc = NewSignalingClient
\* a worker thread that was never started
NoWorker == [pc |-> "none", cb |-> 0, data |-> 0]
\* start_receiving calls made on one socket, and so the workers it can have
MaxStarts == 3
Workers == 1..MaxStarts
\* UDPSocket(): bound, no worker; handed lists the callback invocations
NewSocket ==
    [is_running |-> FALSE, socket |-> "open", stop |-> "idle", starts |-> 0,
     w |-> [i \in Workers |-> NoWorker], buffer |-> <<>>, arrived |-> 0,
     handed |-> <<>>, noop |-> FALSE]
SocketIdle == us = NewSocket
LateIdle == CryptoIdle /\ LongRunIdle /\ SigStopIdle /\ SigClientIdle /\ SocketIdle
MoreIdle == PlayedIdle /\ ClientIdle /\ LateIdle
ExtraIdle == CodecIdle /\ UdpIdle /\ SessionIdle /\ FramesIdle /\ MoreIdle

\* the subsystems a specification does not exercise stay as constructed
LockIdle == lock = Free /\ thr = [t \in Threads |-> Idle]
DrainIdle == phase = "off" /\ arrivals = <<>> /\ drained = <<>>

\* datagram sources known to the model, and the peer argument of add_peer
Addrs == {"a1", "a2", "a3"}
PeerArgs == {"a3"}
NoAddr == "none"
\* the relay's receive worker waiting in recvfrom
RxIdle == [pc |-> "idle", pos |-> 0, used |-> 0, len |-> 0]
NoFan == [src |-> NoAddr, data |-> 0, keys |-> {}, sent |-> <<>>, failed |-> FALSE,
          over |-> FALSE, raised |-> FALSE]
NothingSeen == [known |-> {}, quiet |-> {}]
RelayIdle == clients = <<>> /\ rx = RxIdle /\ fan = NoFan /\ seen = NothingSeen

\* signaling connections, client names and message types
Conns == {"c1", "c2", "c3"}
\* the sender of a REGISTER is not validated: it may be the empty string
EmptyName == ""
Names == {"alice", "bob", EmptyName}
MsgTypes == {"register", "call"}
NoConn == "none"
NoName == "none"
NotAccepted == [st |-> "new", id |-> NoName]
NoReg == [name |-> NoName, conn |-> NoConn, replaced |-> FALSE]
NoMessage == [from |-> NoConn, type |-> "none", sender |-> NoName, recipient |-> NoName,
              called |-> FALSE, to |-> NoConn, owner |-> NoConn,
              raised |-> FALSE, bound |-> FALSE, steps |-> <<>>]
NoFirst == [conn |-> NoConn, type |-> "none", recipient |-> NoName,
            bound |-> FALSE, called |-> FALSE, to |-> NoConn]
SigIdle ==
    /\ conn = [c \in Conns |-> NotAccepted]
    /\ sigClients = {}
    /\ callbacks = {}
    /\ latest = [n \in Names |-> NoConn]
    /\ lastReg = NoReg
    /\ handled = NoMessage
    /\ first = NoFirst

(***************************************************************************)
(* Helpers.                                                                *)
(***************************************************************************)
Min(a, b) == IF a <= b THEN a ELSE b
Max(a, b) == IF a >= b THEN a ELSE b
Abs(a) == IF a >= 0 THEN a ELSE -a

\* keys of the OrderedDict, and dict lookups
Keys(q) == {q[i].seq : i \in 1..Len(q)}
IndexOf(q, s) == CHOOSE i \in 1..Len(q) : q[i].seq = s
DataOf(q, s) == q[IndexOf(q, s)].data
\* faulty variant: the first inserted key is taken for the smallest
MinKey_First(q) == q[1].seq
MinKey(q) == CHOOSE s \in Keys(q) : \A t \in Keys(q) : s <= t

\* faulty variant: a repeated key is stored as one more entry
DictSet_Append(q, s, d) == Append(q, [seq |-> s, data |-> d])

\* OrderedDict.__setitem__: an existing key keeps its position, a new key is
\* appended at the end
DictSet(q, s, d) ==
    IF s \in Keys(q)
    THEN [i \in 1..Len(q) |-> IF q[i].seq = s THEN [seq |-> s, data |-> d] ELSE q[i]]
    ELSE Append(q, [seq |-> s, data |-> d])

\* OrderedDict.pop(key)
DictPop(q, s) == SelectSeq(q, LAMBDA e : e.seq # s)

\* dict.__setitem__ on packet_times
TimesSet(pt, s, t) == [k \in (DOMAIN pt) \cup {s} |-> IF k = s THEN t ELSE pt[k]]

EmptyTimes == [k \in {} |-> 0]

(***************************************************************************)
(* JitterBuffer.__init__                                                   *)
(***************************************************************************)
NewJitterBuffer(maxSize, minSize, maxDelay, adapt) ==
    [max_size |-> maxSize, min_size |-> minSize, max_delay |-> maxDelay,
     adaptive |-> adapt,
     packet_queue |-> <<>>,
     next_sequence |-> 0,
     last_sequence |-> NoSequence,
     last_playback_time |-> 0,
     packet_times |-> EmptyTimes,
     jitter |-> 0,
     current_delay |-> target_delay]

(***************************************************************************)
(* JitterBuffer._update_adaptive_delay                                     *)
(***************************************************************************)
\* faulty variant: the grown delay is not capped at max_delay
UpdateAdaptiveDelay_NoCap(b) ==
    IF b.jitter > target_delay
    THEN [b EXCEPT !.current_delay = (b.current_delay * (100 + adaptation_rate)) \div 100]
    ELSE [b EXCEPT !.current_delay =
            Max((b.current_delay * (100 - adaptation_rate)) \div 100, target_delay)]
UpdateAdaptiveDelay(b) ==
    IF b.jitter > target_delay
    THEN [b EXCEPT !.current_delay =
            Min((b.current_delay * (100 + adaptation_rate)) \div 100, b.max_delay)]
    ELSE [b EXCEPT !.current_delay =
            Max((b.current_delay * (100 - adaptation_rate)) \div 100, target_delay)]

(***************************************************************************)
(* JitterBuffer._update_jitter                                             *)
(***************************************************************************)
UpdateJitter(b, sequence) ==
    IF sequence \notin DOMAIN b.packet_times \/ (sequence - 1) \notin DOMAIN b.packet_times
    THEN b
    ELSE LET inter_arrival == b.packet_times[sequence] - b.packet_times[sequence - 1]
             b1 == [b EXCEPT !.jitter = b.jitter + ((Abs(inter_arrival) - b.jitter) \div 16)]
         IN  IF b.adaptive THEN UpdateAdaptiveDelay(b1) ELSE b1

(***************************************************************************)
(* JitterBuffer.add_packet, in the parts a thread runs under the lock      *)
(***************************************************************************)
\* faulty variant: the boundary sequence last_sequence - max_size is dropped too
IsStale_Inclusive(b, sequence) ==
    b.last_sequence # NoSequence /\ sequence <= b.last_sequence - b.max_size

\* "Check if packet is too old"
IsStale(b, sequence) ==
    b.last_sequence # NoSequence /\ sequence < b.last_sequence - b.max_size

\* store, record the arrival time, update last_sequence and the jitter
AddStore(b, sequence, data, t) ==
    LET b1 == [b EXCEPT !.packet_queue = DictSet(b.packet_queue, sequence, data),
                        !.packet_times = TimesSet(b.packet_times, sequence, t)]
        b2 == IF sequence > b1.last_sequence
              THEN [b1 EXCEPT !.last_sequence = sequence] ELSE b1
    IN  IF Cardinality(DOMAIN b2.packet_times) > 1 THEN UpdateJitter(b2, sequence) ELSE b2

\* one round of "while len(packet_queue) > max_size: popitem(last=False)"
NeedsTrim(b) == Len(b.packet_queue) > b.max_size
TrimOne(b) == [b EXCEPT !.packet_queue = Tail(b.packet_queue)]

RECURSIVE Trim(_)
Trim(b) == IF NeedsTrim(b) THEN Trim(TrimOne(b)) ELSE b

\* the whole call: the new object state and the value returned
add_packet(b, sequence, data, t) ==
    IF IsStale(b, sequence)
    THEN [jb |-> b, ret |-> FALSE]
    ELSE [jb |-> Trim(AddStore(b, sequence, data, t)), ret |-> TRUE]

(***************************************************************************)
(* JitterBuffer.get_next_packet                                            *)
(***************************************************************************)
None == [seq |-> -1, data |-> 0]

EnoughPackets(b) == Len(b.packet_queue) >= b.min_size
\* faulty variant: the playout delay is not waited for
DelayElapsed_Always(b, t) == TRUE
DelayElapsed(b, t) == ~(t - b.last_playback_time < b.current_delay)

\* faulty variant: next_sequence is incremented without jumping over the gap
Emit_NoJump(b, s, t) ==
    [jb  |-> [b EXCEPT !.packet_queue = DictPop(b.packet_queue, s),
                       !.next_sequence = b.next_sequence + 1,
                       !.last_playback_time = t],
     ret |-> [seq |-> s, data |-> DataOf(b.packet_queue, s)]]

\* pop the entry, advance next_sequence past it, note the playback time
Emit(b, s, t) ==
    [jb  |-> [b EXCEPT !.packet_queue = DictPop(b.packet_queue, s),
                       !.next_sequence = s + 1,
                       !.last_playback_time = t],
     ret |-> [seq |-> s, data |-> DataOf(b.packet_queue, s)]]

\* faulty variant: the smallest held sequence is played even when it is late
get_next_packet_PlayLate(b, t) ==
    IF ~EnoughPackets(b) THEN [jb |-> b, ret |-> None]
    ELSE IF ~DelayElapsed(b, t) THEN [jb |-> b, ret |-> None]
    ELSE IF b.next_sequence \in Keys(b.packet_queue) THEN Emit(b, b.next_sequence, t)
    ELSE IF Len(b.packet_queue) > 0 THEN Emit(b, MinKey(b.packet_queue), t)
    ELSE [jb |-> b, ret |-> None]

get_next_packet(b, t) ==
    IF ~EnoughPackets(b) THEN [jb |-> b, ret |-> None]
    ELSE IF ~DelayElapsed(b, t) THEN [jb |-> b, ret |-> None]
    ELSE IF b.next_sequence \in Keys(b.packet_queue) THEN Emit(b, b.next_sequence, t)
    ELSE IF Len(b.packet_queue) > 0 /\ MinKey(b.packet_queue) > b.next_sequence
         THEN Emit(b, MinKey(b.packet_queue), t)
    ELSE [jb |-> b, ret |-> None]

(***************************************************************************)
(* JitterBuffer.reset                                                      *)
(***************************************************************************)
\* faulty variant: current_delay is left as adapted
reset_KeepDelay(b) ==
    [b EXCEPT !.packet_queue = <<>>,
              !.packet_times = EmptyTimes,
              !.next_sequence = 0,
              !.last_sequence = NoSequence,
              !.last_playback_time = 0,
              !.jitter = 0]
reset(b) ==
    [b EXCEPT !.packet_queue = <<>>,
              !.packet_times = EmptyTimes,
              !.next_sequence = 0,
              !.last_sequence = NoSequence,
              !.last_playback_time = 0,
              !.jitter = 0,
              !.current_delay = target_delay]

(***************************************************************************)
(* The jitter buffer as a state machine: every call runs under self.lock,  *)
(* so a call is one step.  emitted and lastCall only observe the calls.    *)
(***************************************************************************)
NothingEmitted == [seq |-> -1, data |-> 0, prev |-> -1]
NoCall == [seq |-> -1, data |-> 0, ok |-> FALSE, old |-> 0]

\* the clock starts at FirstInstant (time.time() is far past every delay) and
\* stops at LastInstant
FirstInstant == default_max_delay
LastInstant == FirstInstant + MaxTicks * 16

JBInit(maxSizes, minSizes, adaptives) ==
    /\ \E maxSize \in maxSizes, minSize \in minSizes, adapt \in adaptives :
          jb = NewJitterBuffer(maxSize, minSize, default_max_delay, adapt)
    /\ now = FirstInstant
    /\ emitted = NothingEmitted
    /\ lastCall = NoCall
    /\ LockIdle
    /\ DrainIdle
    /\ RelayIdle
    /\ SigIdle
    /\ ExtraIdle

\* time passes, up to the instant last
Tick(last) ==
    /\ \E d \in TickSteps : now + d <= last /\ now' = now + d
    /\ UNCHANGED <<jb, emitted, lastCall, lockVars, drainVars, netVars>>

\* a packet with one of the payloads P arrives; log says whether lastCall
\* records the call
AddPacket(S, P, log) ==
    \E sequence \in S, data \in P :
        LET r == add_packet(jb, sequence, data, now) IN
        /\ jb' = r.jb
        /\ lastCall' = IF log
                       THEN [seq |-> sequence, data |-> data, ok |-> r.ret,
                             old |-> IF sequence \in Keys(jb.packet_queue)
                                     THEN DataOf(jb.packet_queue, sequence) ELSE 0]
                       ELSE lastCall
        /\ UNCHANGED <<now, emitted, lockVars, drainVars, netVars>>

GetNextPacket ==
    LET r == get_next_packet(jb, now) IN
    /\ jb' = r.jb
    /\ emitted' = IF r.ret # None
                  THEN [seq |-> r.ret.seq, data |-> r.ret.data, prev |-> emitted.seq]
                  ELSE emitted
    /\ UNCHANGED <<now, lastCall, lockVars, drainVars, netVars>>

Reset ==
    /\ jb' = reset(jb)
    /\ emitted' = NothingEmitted
    /\ UNCHANGED <<now, lastCall, lockVars, drainVars, netVars>>

\* SpecJB: one payload value, adaptive or not, calls not logged
JBNext == Tick(LastInstant) \/ AddPacket(SeqNums, {1}, FALSE) \/ GetNextPacket \/ Reset

SpecJB == JBInit(MaxSizes, MinSizes, BOOLEAN) /\ [][JBNext]_vars

\* SpecJBCalls: two payload values, add_packet calls logged, adaptive=False,
\* calls made at two instants 100 ms apart
JBCallsNext == Tick(FirstInstant + 16) \/ AddPacket(CallSeqNums, Payloads, TRUE) \/ GetNextPacket \/ Reset

SpecJBCalls == JBInit({2}, {1}, {FALSE}) /\ [][JBCallsNext]_vars

\* SpecGate: the pacing of get_next_packet over MaxGateTicks steps of 100 ms;
\* played notes when the last two payloads were returned
MaxGateTicks == 2
GateLast == FirstInstant + MaxGateTicks * 16

gateRest == <<lockVars, drainVars, relayVars, sigVars, codecVars, udp, session, fh, vc,
              lateVars>>

GateGet ==
    LET r == get_next_packet(jb, now) IN
    /\ jb' = r.jb
    /\ emitted' = IF r.ret # None
                  THEN [seq |-> r.ret.seq, data |-> r.ret.data, prev |-> emitted.seq]
                  ELSE emitted
    /\ played' = IF r.ret # None
                 THEN [at |-> now,
                       gap |-> IF played.at = NoPlay THEN NoPlay ELSE now - played.at,
                       delay |-> jb.current_delay,
                       across |-> played.reset, reset |-> FALSE]
                 ELSE played
    /\ UNCHANGED <<now, lastCall, gateRest>>

GateReset ==
    /\ jb' = reset(jb)
    /\ emitted' = NothingEmitted
    /\ played' = [played EXCEPT !.reset = (played.at # NoPlay)]
    /\ UNCHANGED <<now, lastCall, gateRest>>

GateInit == JBInit({2}, {1}, BOOLEAN)

GateNext == Tick(GateLast) \/ AddPacket({0, 1}, {1}, FALSE) \/ GateGet \/ GateReset

SpecGate == GateInit /\ [][GateNext]_vars

(***************************************************************************)
(* Delay adaptation: packets 0 and 1 arrive together or 2 s apart, again   *)
(* and again, so that the jitter estimate crosses target_delay both ways.  *)
(***************************************************************************)
\* time passes between two arrivals, once
Pause ==
    /\ now = FirstInstant
    /\ \E d \in PauseSteps : now' = now + d
    /\ UNCHANGED <<jb, emitted, lastCall, lockVars, drainVars, netVars>>

DelayNext == Pause \/ AddPacket({0, 1}, {1}, FALSE) \/ GetNextPacket \/ Reset

DelayInit ==
    /\ \E maxDelay \in MaxDelays, adapt \in BOOLEAN :
          jb = NewJitterBuffer(2, 1, maxDelay, adapt)
    /\ now = FirstInstant
    /\ emitted = NothingEmitted
    /\ lastCall = NoCall
    /\ LockIdle
    /\ DrainIdle
    /\ RelayIdle
    /\ SigIdle
    /\ ExtraIdle

SpecDelay == DelayInit /\ [][DelayNext]_vars

(***************************************************************************)
(* The JitterBuffer called from several threads: every public method runs  *)
(* its body inside "with self.lock".                                       *)
(***************************************************************************)
\* faulty variant: the methods do not wait for the lock
LockFree_Always(l) == TRUE
\* threading.Lock.acquire succeeds only when the lock is not held
LockFree(l) == l = Free

\* "with self.lock:" entered by thread t calling add_packet(sequence, ..),
\* get_next_packet() or reset()
LockAcquire(t) ==
    /\ thr[t] = Idle
    /\ LockFree(lock)
    /\ lock' = t
    /\ \/ \E sequence \in SeqNums : thr' = [thr EXCEPT ![t] = [op |-> "add", seq |-> sequence]]
       \/ thr' = [thr EXCEPT ![t] = [op |-> "get", seq |-> -1]]
       \/ thr' = [thr EXCEPT ![t] = [op |-> "reset", seq |-> -1]]
    /\ UNCHANGED <<jb, now, emitted, lastCall, drainVars, netVars>>

\* "with self.lock:" left by thread t
LockRelease(t) ==
    /\ lock' = Free
    /\ thr' = [thr EXCEPT ![t] = Idle]

\* add_packet lines 55-70: the stale check returns, or the packet is stored
AddStoreStep(t) ==
    /\ thr[t].op = "add"
    /\ IF IsStale(jb, thr[t].seq)
       THEN LockRelease(t) /\ UNCHANGED jb
       ELSE /\ jb' = AddStore(jb, thr[t].seq, 1, now)
            /\ thr' = [thr EXCEPT ![t] = [op |-> "trim", seq |-> thr[t].seq]]
            /\ UNCHANGED lock
    /\ UNCHANGED <<now, emitted, lastCall, drainVars, netVars>>

\* add_packet lines 73-76: one iteration of the trim loop, or its exit
TrimStep(t) ==
    /\ thr[t].op = "trim"
    /\ IF NeedsTrim(jb)
       THEN jb' = TrimOne(jb) /\ UNCHANGED lockVars
       ELSE LockRelease(t) /\ UNCHANGED jb
    /\ UNCHANGED <<now, emitted, lastCall, drainVars, netVars>>

\* get_next_packet lines 117-147
GetStep(t) ==
    /\ thr[t].op = "get"
    /\ LET r == get_next_packet(jb, now) IN
       /\ jb' = r.jb
       /\ emitted' = IF r.ret # None
                     THEN [seq |-> r.ret.seq, data |-> r.ret.data, prev |-> emitted.seq]
                     ELSE emitted
    /\ LockRelease(t)
    /\ UNCHANGED <<now, lastCall, drainVars, netVars>>

\* reset lines 162-169
ResetStep(t) ==
    /\ thr[t].op = "reset"
    /\ jb' = reset(jb)
    /\ emitted' = NothingEmitted
    /\ LockRelease(t)
    /\ UNCHANGED <<now, lastCall, drainVars, netVars>>

JBLockNext ==
    \/ Tick(FirstInstant + 16)
    \/ \E t \in Threads : LockAcquire(t)
    \/ \E t \in Threads : AddStoreStep(t)
    \/ \E t \in Threads : TrimStep(t)
    \/ \E t \in Threads : GetStep(t)
    \/ \E t \in Threads : ResetStep(t)

\* SpecJBLock: two threads, each calling any method, at two instants
SpecJBLock == JBInit(MaxSizes, MinSizes, {FALSE}) /\ [][JBLockNext]_vars

(***************************************************************************)
(* Fill, then drain: distinct packets are inserted into a JitterBuffer     *)
(* with min_size = 1, then get_next_packet is called, each time once the   *)
(* playout delay has elapsed, until it returns None.                       *)
(***************************************************************************)
Range(q) == {q[i] : i \in 1..Len(q)}

DrainInit ==
    /\ \E maxSize \in DrainMaxSizes, adapt \in BOOLEAN :
          jb = NewJitterBuffer(maxSize, 1, default_max_delay, adapt)
    /\ now = FirstInstant
    /\ emitted = NothingEmitted
    /\ lastCall = NoCall
    /\ phase = "insert" /\ arrivals = <<>> /\ drained = <<>>
    /\ LockIdle
    /\ RelayIdle
    /\ SigIdle
    /\ ExtraIdle

\* add_packet(sequence, ..) for a sequence not inserted before, not stale and
\* not below next_sequence, while fewer than max_size have been inserted;
\* the packet arrives together with the one before it or 100 ms later
DrainInsert ==
    /\ phase = "insert"
    /\ Len(arrivals) < jb.max_size
    /\ \E sequence \in DrainSeqNums, d \in {0} \cup TickSteps :
          /\ sequence \notin Range(arrivals)
          /\ sequence >= jb.next_sequence
          /\ ~IsStale(jb, sequence)
          /\ jb' = add_packet(jb, sequence, 1, now + d).jb
          /\ now' = now + d
          /\ arrivals' = Append(arrivals, sequence)
    /\ UNCHANGED <<emitted, lastCall, phase, drained, lockVars, netVars>>

\* the inserts are over
DrainStart ==
    /\ phase = "insert"
    /\ phase' = "drain"
    /\ UNCHANGED <<jbVars, arrivals, drained, lockVars, netVars>>

\* get_next_packet(), called once current_delay has passed since the last
\* return
DrainGet ==
    /\ phase = "drain"
    /\ LET t == Max(now, jb.last_playback_time + jb.current_delay)
           r == get_next_packet(jb, t)
       IN  /\ now' = t
           /\ jb' = r.jb
           /\ IF r.ret # None
              THEN /\ drained' = Append(drained, r.ret.seq)
                   /\ emitted' = [seq |-> r.ret.seq, data |-> r.ret.data, prev |-> emitted.seq]
                   /\ UNCHANGED phase
              ELSE /\ phase' = "done"
                   /\ UNCHANGED <<drained, emitted>>
    /\ UNCHANGED <<lastCall, arrivals, lockVars, netVars>>

\* the next batch arrives at the same buffer
DrainAgain ==
    /\ phase = "done"
    /\ \E s \in DrainSeqNums : s >= jb.next_sequence
    /\ phase' = "insert" /\ arrivals' = <<>> /\ drained' = <<>>
    /\ UNCHANGED <<jbVars, lockVars, netVars>>

DrainNext == DrainInsert \/ DrainStart \/ DrainGet \/ DrainAgain

SpecDrain == DrainInit /\ [][DrainNext]_vars

(***************************************************************************)
(* The tail of a stream: packets arrive at a JitterBuffer, then stop        *)
(* arriving, while get_next_packet keeps being called, each time once the  *)
(* playout delay has elapsed since the last packet was returned.           *)
(***************************************************************************)
\* constructor arguments (max_size, min_size); the last pair is the default
TailSizes == {<<2, 1>>, <<2, 2>>, <<50, 10>>}
TailSeqNums == 0..2

TailInit ==
    /\ \E size \in TailSizes :
          jb = NewJitterBuffer(size[1], size[2], default_max_delay, FALSE)
    /\ now = FirstInstant
    /\ emitted = NothingEmitted
    /\ lastCall = NoCall
    /\ phase = "insert" /\ arrivals = <<>> /\ drained = <<>>
    /\ LockIdle
    /\ RelayIdle
    /\ SigIdle
    /\ ExtraIdle

\* add_packet while the stream lasts
TailAdd == phase = "insert" /\ AddPacket(TailSeqNums, {1}, FALSE)

\* the last packet of the stream has arrived
TailStop == DrainStart

\* get_next_packet(), called once current_delay has passed since the last
\* return, before and after the end of the stream
TailGet ==
    /\ LET t == Max(now, jb.last_playback_time + jb.current_delay)
           r == get_next_packet(jb, t)
       IN  /\ now' = t
           /\ jb' = r.jb
           /\ emitted' = IF r.ret # None
                         THEN [seq |-> r.ret.seq, data |-> r.ret.data, prev |-> emitted.seq]
                         ELSE emitted
    /\ UNCHANGED <<lastCall, drainVars, lockVars, netVars>>

TailNext == TailAdd \/ TailStop \/ TailGet

SpecTail == TailInit /\ [][TailNext]_vars

\* the player keeps calling get_next_packet; no further packet is promised
SpecTailLive == TailInit /\ [][TailNext]_vars /\ WF_vars(TailGet)

(***************************************************************************)
(* The relay (server.py). self.clients is a dict, held here as its entries *)
(* in insertion order. An iterator over it walks the entries by position   *)
(* and raises RuntimeError when the number of keys differs from the number *)
(* at its creation; a deleted entry leaves an empty slot in the dict's     *)
(* table, which the iterator skips, so deleting an entry the iterator has  *)
(* passed moves the iterator's position in the sequence of entries back by *)
(* one. The table is not rebuilt while an iteration is in progress.        *)
(* No method of VoIPServer takes a lock.                                   *)
(***************************************************************************)
LiveKeys(d) == {d[i].addr : i \in 1..Len(d)}
Used(d) == Len(d)
SlotOf(d, a) == CHOOSE i \in 1..Len(d) : d[i].addr = a

\* self.clients[a] = set() for a new key a
DictInsert(d, a) == Append(d, [addr |-> a, peers |-> {}])
\* del self.clients[a]
DictDel(d, a) == SelectSeq(d, LAMBDA e : e.addr # a)

add_peer(d, client_addr, peer_addr) ==
    LET d1 == IF client_addr \notin LiveKeys(d) THEN DictInsert(d, client_addr) ELSE d
    IN  [d1 EXCEPT ![SlotOf(d1, client_addr)].peers = @ \cup {peer_addr}]
remove_peer(d, client_addr, peer_addr) ==
    IF client_addr \in LiveKeys(d)
    THEN [d EXCEPT ![SlotOf(d, client_addr)].peers = @ \ {peer_addr}]
    ELSE d
remove_client(d, client_addr) ==
    IF client_addr \in LiveKeys(d) THEN DictDel(d, client_addr) ELSE d

\* _receive_loop: recvfrom returns (data, addr); _handle_packet lines 49-54:
\* the source becomes a key, the iteration over self.clients.items() starts
RelayReceive ==
    /\ rx.pc = "idle"
    /\ \E data \in Payloads, addr \in Addrs :
          LET d == IF addr \notin LiveKeys(clients) THEN DictInsert(clients, addr) ELSE clients
          IN  /\ clients' = d
              /\ rx' = [pc |-> "fanout", pos |-> 1, used |-> Used(d), len |-> Used(d)]
              /\ fan' = [src |-> addr, data |-> data, keys |-> LiveKeys(d), sent |-> <<>>,
                         failed |-> FALSE, over |-> FALSE, raised |-> FALSE]
              /\ seen' = [known |-> seen.known \cup {addr}, quiet |-> seen.quiet \ {addr}]
    /\ UNCHANGED <<bufVars, sigVars>>

\* _handle_packet is over: the loop ended, or an exception reached
\* _receive_loop's except clause
HandlerOver(exc) ==
    /\ rx' = [RxIdle EXCEPT !.pc = "over"]
    /\ fan' = [fan EXCEPT !.over = TRUE, !.raised = exc]

\* _receive_loop lines 59-61 (after the sleep of line 68 if an exception was
\* caught): the worker is back in recvfrom
RelayLoop ==
    /\ rx.pc = "over"
    /\ rx' = RxIdle
    /\ fan' = NoFan
    /\ UNCHANGED <<clients, seen, bufVars, sigVars>>

\* faulty variant: the datagram goes to a peer listed for the entry
route_ToPeer(entry, addr) ==
    IF entry.peers \ {addr} # {} THEN CHOOSE p \in entry.peers \ {addr} : TRUE ELSE NoAddr
\* _handle_packet lines 54-56, the loop body for one entry (client_addr,
\* peers) of self.clients.items(): the address the datagram is sent to, if any
route(entry, addr) == IF entry.addr # addr THEN entry.addr ELSE NoAddr

\* _handle_packet lines 54-56: one step of the iteration: the iterator raises
\* RuntimeError, or is exhausted, or yields the next entry, to which the
\* datagram is sent unless it is the source; UDPSocket.send catches a failed
\* sendto and returns False
FanoutStep ==
    /\ rx.pc = "fanout"
    /\ IF rx.used # Used(clients) THEN HandlerOver(TRUE)
       ELSE IF rx.pos > Len(clients) THEN HandlerOver(FALSE)
       ELSE IF rx.len = 0 THEN HandlerOver(TRUE)
       ELSE LET client_addr == route(clients[rx.pos], fan.src)
            IN  /\ rx' = [rx EXCEPT !.pos = rx.pos + 1, !.len = rx.len - 1]
                /\ IF client_addr # NoAddr
                   THEN \E ok \in BOOLEAN :
                           fan' = [fan EXCEPT !.sent = Append(fan.sent,
                                                  [to |-> client_addr, data |-> fan.data]),
                                              !.failed = fan.failed \/ ~ok]
                   ELSE UNCHANGED fan
    /\ UNCHANGED <<clients, seen, bufVars, sigVars>>

\* the registry API, called from any other thread
AddPeer ==
    /\ \E client_addr \in Addrs, peer_addr \in PeerArgs :
          /\ clients' = add_peer(clients, client_addr, peer_addr)
          /\ seen' = [seen EXCEPT !.known = @ \cup {client_addr}]
    /\ UNCHANGED <<rx, fan, bufVars, sigVars>>
RemovePeer ==
    /\ \E client_addr \in Addrs, peer_addr \in PeerArgs :
          clients' = remove_peer(clients, client_addr, peer_addr)
    /\ UNCHANGED <<rx, fan, seen, bufVars, sigVars>>
RemoveClient ==
    /\ \E client_addr \in Addrs :
          /\ clients' = remove_client(clients, client_addr)
          /\ rx' = IF /\ rx.pc = "fanout"
                      /\ client_addr \in LiveKeys(clients)
                      /\ SlotOf(clients, client_addr) < rx.pos
                   THEN [rx EXCEPT !.pos = rx.pos - 1] ELSE rx
          /\ seen' = [known |-> seen.known \ {client_addr},
                      quiet |-> seen.quiet \cup (LiveKeys(clients) \cap {client_addr})]
    /\ UNCHANGED <<fan, bufVars, sigVars>>

\* the jitter buffer as constructed, for the specifications that do not use it
JBIdle ==
    /\ jb = NewJitterBuffer(1, 1, default_max_delay, FALSE)
    /\ now = FirstInstant
    /\ emitted = NothingEmitted
    /\ lastCall = NoCall
    /\ LockIdle
    /\ DrainIdle

RelayInit == JBIdle /\ RelayIdle /\ SigIdle /\ ExtraIdle
RelayNext == RelayReceive \/ FanoutStep \/ RelayLoop \/ AddPeer \/ RemovePeer \/ RemoveClient

SpecRelay == RelayInit /\ [][RelayNext]_vars

(***************************************************************************)
(* The signaling server (signaling.py). One worker thread per accepted     *)
(* connection runs _handle_client; self.clients maps a name to a socket    *)
(* and is held here as a set of pairs <<name, connection>>.                *)
(***************************************************************************)
BoundTo(reg, name) == {p[2] : p \in {q \in reg : q[1] = name}}
\* faulty variant: an assignment to a bound name adds a second binding
Bind_Add(reg, name, c) == reg \cup {<<name, c>>}
\* self.clients[client_id] = client_socket
Bind(reg, name, c) == {p \in reg : p[1] # name} \cup {<<name, c>>}
\* del self.clients[client_id]
Unbind(reg, name) == {p \in reg : p[1] # name}
\* self.clients[message.recipient], for a bound recipient
Lookup(reg, name) == CHOOSE c \in BoundTo(reg, name) : TRUE

\* the sender field of a message is not looked at after registration
Senders == {"bob"}
Messages == [type : MsgTypes, sender : Senders, recipient : Names \cup {NoName}]
\* "if client_id", "if message.recipient": None and the empty string are false
Truthy(name) == name # NoName /\ name # EmptyName


\* _server_loop lines 87-93: a connection is accepted and its worker started
Accept ==
    /\ \E c \in Conns :
          /\ conn[c].st = "new"
          /\ conn' = [conn EXCEPT ![c] = [st |-> "awaiting", id |-> NoName]]
    /\ lastReg' = NoReg /\ handled' = NoMessage /\ first' = NoFirst
    /\ UNCHANGED <<sigClients, callbacks, latest, bufVars, relayVars>>

\* what a connection may send first instead of a REGISTER: nothing (the peer
\* closed), bytes that do not parse, or a message of another type
FirstInputs ==
    {m \in Messages : m.type # "register"}
       \cup {[type |-> t, sender |-> NoName, recipient |-> NoName] : t \in {"empty", "garbage"}}

\* faulty variant: a first message of another type is handled as a message
\* of a registered connection
first_input_Dispatch(reg, cbs, c, m) ==
    [conn |-> c, type |-> m.type, recipient |-> m.recipient, bound |-> FALSE,
     called |-> m.type \in cbs,
     to |-> IF Truthy(m.recipient) /\ BoundTo(reg, m.recipient) # {}
            THEN Lookup(reg, m.recipient) ELSE NoConn]
\* _handle_client lines 102-108: what the server does with a first input
\* that is not a REGISTER: it returns (or, for bytes that do not parse,
\* raises into line 124) with client_id = None, before any call of
\* _handle_message
first_input(reg, cbs, c, m) ==
    [conn |-> c, type |-> m.type, recipient |-> m.recipient,
     bound |-> FALSE, called |-> FALSE, to |-> NoConn]

\* _handle_client lines 102-108 and 126-129: the first recv returns nothing,
\* or bytes that do not parse, or a message that is not REGISTER: the worker
\* ends with client_id = None and closes the socket
RejectFirst ==
    /\ \E c \in Conns, m \in FirstInputs :
          /\ conn[c].st = "awaiting"
          /\ conn' = [conn EXCEPT ![c] = NotAccepted]
          /\ first' = first_input(sigClients, callbacks, c, m)
    /\ lastReg' = NoReg /\ handled' = NoMessage
    /\ UNCHANGED <<sigClients, callbacks, latest, bufVars, relayVars>>

\* _handle_client lines 102-113: the first message is REGISTER with sender name
Register ==
    /\ \E c \in Conns, name \in Names :
          /\ conn[c].st = "awaiting"
          /\ conn' = [conn EXCEPT ![c] = [st |-> "registered", id |-> name]]
          /\ sigClients' = Bind(sigClients, name, c)
          /\ latest' = [latest EXCEPT ![name] = c]
          /\ lastReg' = [name |-> name, conn |-> c,
                         replaced |-> BoundTo(sigClients, name) \ {c} # {}]
    /\ handled' = NoMessage /\ first' = NoFirst
    /\ UNCHANGED <<callbacks, bufVars, relayVars>>

\* _handle_client lines 126-129 for a registered worker: the name is removed
\* from the registry if it is bound, and the socket is closed
Finally(c) ==
    /\ conn' = [conn EXCEPT ![c] = NotAccepted]
    /\ sigClients' = IF Truthy(conn[c].id) /\ BoundTo(sigClients, conn[c].id) # {}
                     THEN Unbind(sigClients, conn[c].id) ELSE sigClients
    /\ latest' = [n \in Names |-> IF latest[n] = c THEN NoConn ELSE latest[n]]

\* _handle_client lines 117-125: recv returns nothing or raises, or the
\* bytes received do not parse
WorkerEnds ==
    /\ \E c \in Conns :
          /\ conn[c].st = "registered"
          /\ Finally(c)
    /\ lastReg' = NoReg /\ handled' = NoMessage /\ first' = NoFirst
    /\ UNCHANGED <<callbacks, bufVars, relayVars>>

\* faulty variant: the message is forwarded before the callback is called
handle_message_ForwardFirst(called, raises, forward) ==
    (IF forward THEN <<"forward">> ELSE <<>>) \o (IF called THEN <<"callback">> ELSE <<>>)
\* _handle_message lines 136-144: what is done for one message, in order:
\* the callback of its type is called if one is registered, and unless that
\* raised the message is written to the socket bound to its recipient
handle_message(called, raises, forward) ==
    (IF called THEN <<"callback">> ELSE <<>>)
       \o (IF ~raises /\ forward THEN <<"forward">> ELSE <<>>)

\* _handle_client lines 117-122 and _handle_message: a message arrives on a
\* registered connection; its type's callback, if any, is called and returns
\* or raises; an exception ends the worker (line 124); otherwise the message
\* is written to the socket bound to its recipient, if any; a failed write
\* is caught (line 143)
HandleMessage ==
    /\ \E c \in Conns, m \in Messages, raises \in BOOLEAN :
          LET called == m.type \in callbacks
              forward == Truthy(m.recipient) /\ BoundTo(sigClients, m.recipient) # {}
              h == [from |-> c, type |-> m.type, sender |-> m.sender,
                    recipient |-> m.recipient, called |-> called, to |-> NoConn,
                    owner |-> IF m.recipient # NoName THEN latest[m.recipient] ELSE NoConn,
                    raised |-> raises, bound |-> forward,
                    steps |-> handle_message(called, raises, forward)]
          IN  /\ conn[c].st = "registered"
              /\ raises => called
              /\ IF raises
                 THEN /\ Finally(c)
                      /\ handled' = h
                 ELSE /\ handled' = IF forward
                                    THEN [h EXCEPT !.to = Lookup(sigClients, m.recipient)]
                                    ELSE h
                      /\ UNCHANGED <<conn, sigClients, latest>>
    /\ lastReg' = NoReg /\ first' = NoFirst
    /\ UNCHANGED <<callbacks, bufVars, relayVars>>

\* register_callback
RegisterCallback ==
    /\ \E type \in MsgTypes :
          /\ type \notin callbacks
          /\ callbacks' = callbacks \cup {type}
    /\ lastReg' = NoReg /\ handled' = NoMessage /\ first' = NoFirst
    /\ UNCHANGED <<conn, sigClients, latest, bufVars, relayVars>>

SigInit == JBIdle /\ RelayIdle /\ SigIdle /\ ExtraIdle
SigNext == Accept \/ RejectFirst \/ Register \/ WorkerEnds \/ HandleMessage \/ RegisterCallback

SpecSig == SigInit /\ [][SigNext]_vars

\* ---------------------------------------------------------------------------
\* SignalingMessage on the wire: from_json, the object, to_json

\* a key the JSON document does not have
Absent == "absent"
\* the values of SignalType, and the enum member each one names
SignalTypeValues == {"register", "call", "accept", "reject", "hangup",
                     "ice_candidate", "error"}
SignalType(value) ==
    CASE value = "register" -> "REGISTER"
      [] value = "call" -> "CALL"
      [] value = "accept" -> "ACCEPT"
      [] value = "reject" -> "REJECT"
      [] value = "hangup" -> "HANGUP"
      [] value = "ice_candidate" -> "ICE_CANDIDATE"
      [] value = "error" -> "ERROR"
ValueOf(member) == CHOOSE value \in SignalTypeValues : SignalType(value) = member

\* JSON values of the "data" key: an object with attributes, the empty
\* object, null, the number 0, a non-empty string
EmptyObject == "{}"
DataValues == {"{k: v}", EmptyObject, NoName, "0", "text"}
\* Python truth of a data value: None, {} and 0 are false
TruthyData(d) == d \notin {NoName, EmptyObject, "0"}

\* the documents a peer can write on its connection
WireDocs == [type: SignalTypeValues \cup {"bogus", Absent},
             sender: {"bob", Absent},
             recipient: {"alice", "carol", EmptyName, NoName, Absent},
             data: DataValues \cup {Absent}]

\* what from_json raises
KeyError == [type |-> "KeyError", sender |-> "none", recipient |-> "none", data |-> "none"]
ValueError == [type |-> "ValueError", sender |-> "none", recipient |-> "none", data |-> "none"]
IsObject(m) == m \notin {NoObj, KeyError, ValueError}

\* SignalingMessage(signal_type, sender, recipient, data): data or {}
SignalingMessage(signal_type, sender, recipient, data) ==
    [type |-> signal_type, sender |-> sender, recipient |-> recipient,
     data |-> IF TruthyData(data) THEN data ELSE EmptyObject]

\* from_json: data['type'] and data['sender'] must be there, the type must be
\* a SignalType value; recipient defaults to None and data to {}
from_json(doc) ==
    IF doc.type = Absent THEN KeyError
    ELSE IF doc.type \notin SignalTypeValues THEN ValueError
    ELSE IF doc.sender = Absent THEN KeyError
    ELSE SignalingMessage(SignalType(doc.type), doc.sender,
                          IF doc.recipient = Absent THEN NoName ELSE doc.recipient,
                          IF doc.data = Absent THEN EmptyObject ELSE doc.data)

\* faulty variant: writes the enum member's name, not its value
to_json_MemberName(m) ==
    [type |-> m.type, sender |-> m.sender, recipient |-> m.recipient, data |-> m.data]
\* to_json: the four attributes, the type by its value
to_json(m) ==
    [type |-> ValueOf(m.type), sender |-> m.sender, recipient |-> m.recipient,
     data |-> m.data]

\* one pass of the registered connection's loop: recv, from_json,
\* _handle_message's forward to the bound recipient
Forward ==
    \E doc \in WireDocs :
       LET m == from_json(doc)
       IN  /\ rxJson' = doc
           /\ message' = m
           /\ txJson' = IF /\ IsObject(m)
                           /\ Truthy(m.recipient)
                           /\ BoundTo(sigClients, m.recipient) # {}
                        THEN to_json(m)
                        ELSE NoJson
           /\ UNCHANGED <<coreVars, udp, session, fh, moreVars>>

\* alice and bob are registered, bob's connection is about to receive
CodecInit ==
    /\ JBIdle
    /\ RelayIdle
    /\ conn = [c \in Conns |-> IF c = "c1" THEN [st |-> "registered", id |-> "alice"]
                               ELSE IF c = "c2" THEN [st |-> "registered", id |-> "bob"]
                               ELSE NotAccepted]
    /\ sigClients = {<<"alice", "c1">>, <<"bob", "c2">>}
    /\ callbacks = {}
    /\ latest = [n \in Names |-> IF n = "alice" THEN "c1"
                                 ELSE IF n = "bob" THEN "c2" ELSE NoConn]
    /\ lastReg = NoReg
    /\ handled = NoMessage
    /\ first = NoFirst
    /\ CodecIdle
    /\ UdpIdle
    /\ SessionIdle
    /\ FramesIdle
    /\ MoreIdle

CodecNext == Forward

SpecCodec == CodecInit /\ [][CodecNext]_vars

\* ---------------------------------------------------------------------------
\* UDPSocket: the receive worker (_receive_loop) and stop()

\* datagrams that arrive at the socket, numbered in arrival order
MaxDatagrams == 3
\* exceptions raised inside the worker's try block
MaxErrors == 2

udpRest == <<coreVars, codecVars, session, fh, moreVars>>

\* where the worker is after an exception inside the try block: the except
\* clause logs and sleeps 0.1 s
\* faulty variant: the exception ends the worker
AfterException_Uncaught == "exited"
AfterException == "sleep"

\* the except clause was entered with n datagrams arrived so far
Caught(u, n) ==
    [u EXCEPT !.receive_thread = AfterException, !.data = NoDatagram,
              !.errors = @ + 1, !.lastErr = n]

\* start_receiving(callback): returns at once when already running, else sets
\* the flag and starts the worker at the head of its loop
StartReceiving ==
    /\ \E cb \in BOOLEAN :
          /\ udp.receive_thread = "none"
          /\ udp.stop = "idle"
          /\ ~udp.is_running
          /\ udp' = [udp EXCEPT !.is_running = TRUE, !.callback = cb,
                                !.receive_thread = "head"]
    /\ UNCHANGED udpRest

\* a peer's datagram reaches the bound socket's receive buffer
Arrive ==
    /\ udp.arrived < MaxDatagrams
    /\ udp.socket = "open" \/ udp.receive_thread = "recvfrom"
    /\ udp' = [udp EXCEPT !.arrived = @ + 1, !.buffer = Append(@, udp.arrived + 1)]
    /\ UNCHANGED udpRest

\* while self.is_running: enter recvfrom, or leave the loop; recvfrom on a
\* closed socket raises at once
LoopHead ==
    /\ udp.receive_thread = "head"
    /\ udp' = IF ~udp.is_running THEN [udp EXCEPT !.receive_thread = "exited"]
              ELSE IF udp.socket = "closed" THEN Caught(udp, udp.arrived)
              ELSE [udp EXCEPT !.receive_thread = "recvfrom"]
    /\ UNCHANGED udpRest

\* recvfrom returns the oldest datagram
RecvReturn ==
    /\ udp.receive_thread = "recvfrom"
    /\ udp.buffer # <<>>
    /\ udp' = [udp EXCEPT !.receive_thread = "callback", !.data = Head(udp.buffer),
                          !.buffer = Tail(@)]
    /\ UNCHANGED udpRest

\* recvfrom raises on the open socket (an ICMP error, an interrupted call)
RecvRaise ==
    /\ udp.receive_thread = "recvfrom"
    /\ udp.socket = "open"
    /\ udp.errors < MaxErrors
    /\ udp' = Caught(udp, udp.arrived)
    /\ UNCHANGED udpRest

\* the socket was closed under a blocked recvfrom: whether the call is woken
\* with an error depends on the platform; on Linux it stays blocked
WakeOnClose ==
    /\ udp.receive_thread = "recvfrom"
    /\ udp.socket = "closed"
    /\ udp.errors < MaxErrors
    /\ udp' = Caught(udp, udp.arrived)
    /\ UNCHANGED udpRest

\* callback(data, addr), which may raise, or packet_queue.put((data, addr))
Deliver ==
    /\ \E raises \in BOOLEAN :
          /\ udp.receive_thread = "callback"
          /\ raises => udp.callback /\ udp.errors < MaxErrors
          /\ LET u == IF udp.callback
                      THEN [udp EXCEPT !.delivered = Append(@, udp.data)]
                      ELSE [udp EXCEPT !.packet_queue = Append(@, udp.data)]
             IN  udp' = IF raises THEN Caught(u, udp.arrived)
                        ELSE [u EXCEPT !.receive_thread = "head", !.data = NoDatagram]
    /\ UNCHANGED udpRest

\* time.sleep(0.1) is over
SleepDone ==
    /\ udp.receive_thread = "sleep"
    /\ udp' = [udp EXCEPT !.receive_thread = "head"]
    /\ UNCHANGED udpRest

\* stop(): clears the flag, then joins the worker if there is one
Stop ==
    /\ udp.stop = "idle"
    /\ udp' = [udp EXCEPT !.is_running = FALSE,
                          !.stop = IF udp.receive_thread = "none" THEN "close"
                                   ELSE "join"]
    /\ UNCHANGED udpRest

\* join(timeout=1.0) returns: the worker has ended, or 1 s has passed
JoinReturns ==
    /\ \E timeout \in BOOLEAN :
          /\ udp.stop = "join"
          /\ timeout \/ udp.receive_thread = "exited"
          /\ udp' = [udp EXCEPT !.stop = "close"]
    /\ UNCHANGED udpRest

\* self.socket.close(), and stop() returns
Close ==
    /\ udp.stop = "close"
    /\ udp' = [udp EXCEPT !.socket = "closed", !.stop = "returned"]
    /\ UNCHANGED udpRest

UdpInit == JBIdle /\ RelayIdle /\ SigIdle /\ ExtraIdle

UdpNext ==
    \/ StartReceiving \/ Arrive \/ LoopHead \/ RecvReturn \/ RecvRaise \/ WakeOnClose
    \/ Deliver \/ SleepDone \/ Stop \/ JoinReturns \/ Close

SpecUdp == UdpInit /\ [][UdpNext]_vars

\* the worker thread and the thread in stop() keep running; datagrams, errors
\* and a wake-up by close are not promised
UdpFairness ==
    /\ WF_vars(LoopHead)
    /\ WF_vars(RecvReturn)
    /\ WF_vars(Deliver)
    /\ WF_vars(SleepDone)
    /\ WF_vars(JoinReturns)
    /\ WF_vars(Close)

SpecUdpLive == UdpInit /\ [][UdpNext]_vars /\ UdpFairness

\* ---------------------------------------------------------------------------
\* VoIPTest.run: the send loop of the two directions

\* passes of the loop
MaxPasses == 3

\* what happens to the chunk of one direction in one pass
Outcomes == {"no_data", "encode_failed", "encrypt_failed", "send_failed", "sent"}

\* faulty variant: the counter is left as it is
Advance_Stuck(n) == n
\* self.next_sequence1 += 1
Advance(n) == n + 1

\* one direction of one pass: read_chunk, encode, encrypt, send_audio with the
\* current sequence number, then the increment; d is the state of the
\* direction, o the outcome
Direction(d, o) ==
    IF o = "no_data" THEN d
    ELSE IF o \in {"encode_failed", "encrypt_failed"}
         THEN [d EXCEPT !.frames_captured = @ + 1]
    ELSE [frames_captured |-> d.frames_captured + 1,
          next_sequence |-> Advance(d.next_sequence),
          sent |-> IF o = "sent" THEN Append(d.sent, d.next_sequence) ELSE d.sent]

\* one pass of the while loop: client 1's chunk, then client 2's
SendLoopPass ==
    /\ \E o1 \in Outcomes, o2 \in Outcomes :
          LET d1 == Direction([frames_captured |-> session.frames_captured1,
                               next_sequence |-> session.next_sequence1,
                               sent |-> session.sent1], o1)
              d2 == Direction([frames_captured |-> session.frames_captured2,
                               next_sequence |-> session.next_sequence2,
                               sent |-> session.sent2], o2)
          IN  /\ session.passes < MaxPasses
              /\ session' = [passes |-> session.passes + 1,
                             next_sequence1 |-> d1.next_sequence,
                             next_sequence2 |-> d2.next_sequence,
                             frames_captured1 |-> d1.frames_captured,
                             frames_captured2 |-> d2.frames_captured,
                             sent1 |-> d1.sent, sent2 |-> d2.sent]
    /\ UNCHANGED <<coreVars, codecVars, udp, fh, moreVars>>

SessionInit == JBIdle /\ RelayIdle /\ SigIdle /\ ExtraIdle

SessionNext == SendLoopPass

SpecSession == SessionInit /\ [][SessionNext]_vars

\* ---------------------------------------------------------------------------
\* FrameHandler: create_frame (behind AudioCapture.read_frame), add_frame

\* frames created, and frames held in frame_buffer
MaxFrames == 3
\* time is counted in units of 20 ms, up to MaxClock
MaxClock == 4
MsPerUnit == 20
\* units between two reads or two offered frames
ClockSteps == {1, 2}
\* current_jitter is kept in 1/60 unit, which makes the mean of up to 5 exact
JitterScale == 60
JitterMaxLen == 5
FrameMaxLen == 10

\* frame_size / codec.rate, in units
frame_duration(h) == ((h.frame_size * 1000) \div h.rate) \div MsPerUnit

RECURSIVE SumSeq(_)
SumSeq(q) == IF q = <<>> THEN 0 ELSE Head(q) + SumSeq(Tail(q))
\* statistics.mean
Mean(q) == (SumSeq(q) * JitterScale) \div Len(q)
\* deque(maxlen=n).append
DequeAppend(q, x, n) == IF Len(q) >= n THEN Append(Tail(q), x) ELSE Append(q, x)

\* what stream.read(CHUNK) gives: an exception, no bytes, or CHUNK frames of
\* 16-bit samples for each channel
ReadResults == {"raises", "empty", "chunk"}

\* create_frame(data): None for no data, else a frame stamped with the time
\* and with frame_count as its sequence number
create_frame(h, len, t, quiet) ==
    IF len = 0 THEN NoFrame
    ELSE [len |-> len, timestamp |-> t, sequence_number |-> h.frame_count,
          sample_rate |-> h.rate, channels |-> h.channels,
          frame_size |-> h.frame_size, is_silence |-> quiet]

\* validate_frame(frame)
validate_frame(h, f) ==
    /\ f.len = h.frame_size * 2
    /\ f.sample_rate = h.rate
    /\ f.channels = h.channels

\* add_frame(frame): the handler after it
add_frame(h, f) ==
    IF ~validate_frame(h, f) THEN h
    ELSE LET jitter == Abs((f.timestamp - h.frame_buffer[Len(h.frame_buffer)].timestamp)
                           - frame_duration(h))
             jb2 == IF h.frame_buffer # <<>>
                    THEN DequeAppend(h.jitter_buffer, jitter, JitterMaxLen)
                    ELSE h.jitter_buffer
         IN  [h EXCEPT !.jitter_buffer = jb2,
                       !.current_jitter = IF h.frame_buffer # <<>> THEN Mean(jb2) ELSE @,
                       !.frame_buffer = DequeAppend(@, f, FrameMaxLen)]

\* AudioCapture.read_frame: stream.read, then create_frame of what was read
ReadFrame ==
    /\ \E r \in ReadResults, dt \in ClockSteps, quiet \in BOOLEAN :
          LET t == fh.clock + dt
              f == IF r = "raises" THEN NoFrame
                   ELSE create_frame(fh, IF r = "empty" THEN 0
                                         ELSE fh.frame_size * fh.channels * 2, t, quiet)
          IN  /\ Len(fh.created) < MaxFrames
              /\ t <= MaxClock
              /\ fh' = [fh EXCEPT !.clock = t, !.made = f,
                                  !.offered = NoFrame, !.accepted = FALSE,
                                  !.created = IF f = NoFrame THEN @
                                              ELSE Append(@, f.sequence_number)]
    /\ UNCHANGED <<coreVars, codecVars, udp, session, moreVars>>

\* the frames a caller can offer to add_frame
FrameInputs(t) ==
    [len: {frame_size * 2, frame_size * 4}, timestamp: {t},
     sequence_number: {0}, sample_rate: Rates, channels: Channels,
     frame_size: {frame_size}, is_silence: {FALSE}]

\* add_frame(frame) is called with a frame made dt ms after the last one
AddFrame ==
    /\ \E dt \in ClockSteps :
          \E f \in FrameInputs(fh.clock + dt) :
             /\ Len(fh.frame_buffer) < MaxFrames
             /\ f.timestamp <= MaxClock
             /\ fh' = [add_frame(fh, f) EXCEPT !.clock = f.timestamp, !.offered = f,
                                               !.accepted = validate_frame(fh, f),
                                               !.made = NoFrame]
    /\ UNCHANGED <<coreVars, codecVars, udp, session, moreVars>>

\* a handler for each codec configuration
FramesInit ==
    /\ JBIdle
    /\ RelayIdle
    /\ SigIdle
    /\ CodecIdle
    /\ UdpIdle
    /\ SessionIdle
    /\ MoreIdle
    /\ \E rate \in Rates, channels \in Channels : fh = NewFrameHandler(rate, channels)

FramesNext == ReadFrame \/ AddFrame

SpecFrames == FramesInit /\ [][FramesNext]_vars

\* ---------------------------------------------------------------------------
\* VoIPClient: send_audio builds the datagram, _handle_packet takes it apart

\* bytes are numbers below 256; base64 text is a sequence of 6-bit digits,
\* with Pad for "="
Pad == 64

\* faulty variant: the padding is left off
EncodeGroup_NoPad(g) ==
    LET n == g[1] * 65536 + (IF Len(g) > 1 THEN g[2] ELSE 0) * 256
             + (IF Len(g) > 2 THEN g[3] ELSE 0)
    IN  SubSeq(<<n \div 262144, (n \div 4096) % 64, (n \div 64) % 64, n % 64>>,
               1, Len(g) + 1)
\* base64.b64encode of up to three bytes: four digits, padded
EncodeGroup(g) ==
    LET n == g[1] * 65536 + (IF Len(g) > 1 THEN g[2] ELSE 0) * 256
             + (IF Len(g) > 2 THEN g[3] ELSE 0)
    IN  <<n \div 262144, (n \div 4096) % 64,
          IF Len(g) > 1 THEN (n \div 64) % 64 ELSE Pad,
          IF Len(g) > 2 THEN n % 64 ELSE Pad>>

RECURSIVE b64encode(_)
b64encode(b) ==
    IF b = <<>> THEN <<>>
    ELSE IF Len(b) <= 3 THEN EncodeGroup(b)
    ELSE EncodeGroup(SubSeq(b, 1, 3)) \o b64encode(SubSeq(b, 4, Len(b)))

\* the bytes of four digits, fewer when the group is padded
DecodeGroup(g) ==
    LET d3 == IF g[3] = Pad THEN 0 ELSE g[3]
        d4 == IF g[4] = Pad THEN 0 ELSE g[4]
        n == g[1] * 262144 + g[2] * 4096 + d3 * 64 + d4
        all == <<n \div 65536, (n \div 256) % 256, n % 256>>
    IN  IF g[3] = Pad THEN SubSeq(all, 1, 1)
        ELSE IF g[4] = Pad THEN SubSeq(all, 1, 2)
        ELSE all

\* base64.b64decode raises binascii.Error when the text is no whole number of
\* groups of four
PaddingOk(t) == Len(t) % 4 = 0
RECURSIVE b64decode(_)
b64decode(t) ==
    IF t = <<>> THEN <<>>
    ELSE DecodeGroup(SubSeq(t, 1, 4)) \o b64decode(SubSeq(t, 5, Len(t)))

\* json.dumps and json.loads of a non-negative int: its decimal digits
RECURSIVE Digits(_)
Digits(n) == IF n < 10 THEN <<n>> ELSE Append(Digits(n \div 10), n % 10)
RECURSIVE FromDigits(_)
FromDigits(d) ==
    IF Len(d) = 1 THEN d[1] ELSE FromDigits(SubSeq(d, 1, Len(d) - 1)) * 10 + d[Len(d)]

\* the ciphertexts, 16-byte IVs and sequence numbers of the envelopes sent
Ciphertexts == {<<>>, <<255>>, <<77, 0>>, <<1, 2, 3>>, <<0, 0, 0, 0, 200>>}
IVs == {[i \in 1..16 |-> 0], [i \in 1..16 |-> 16 * i - 1]}
Sequences == {0, 1, 10, 65536}
\* each ciphertext with each IV, the sequence number going with the length
SequenceFor(c) == CASE Len(c) = 0 -> 0 [] Len(c) = 1 -> 1 [] Len(c) = 5 -> 65536
                    [] OTHER -> 10
Envelopes == {e \in [encrypted: Ciphertexts, iv: IVs, sequence: Sequences] :
                 e.sequence = SequenceFor(e.encrypted)}

\* the JSON object send_audio serialises: the fields by name
BuildDatagram(audio_data) ==
    [kind |-> "object", fields |-> {"encrypted", "iv", "sequence"},
     encrypted |-> b64encode(audio_data.encrypted),
     iv |-> b64encode(audio_data.iv),
     sequence |-> Digits(audio_data.sequence)]

\* faulty variant: any JSON object is taken for an envelope
Parses_Lenient(w) == w.kind = "object"
\* _handle_packet up to the callback: the audio_data dict, or nothing when
\* json.loads, a missing key or b64decode raises
Parses(w) ==
    /\ w.kind = "object"
    /\ {"encrypted", "iv", "sequence"} \subseteq w.fields
    /\ PaddingOk(w.encrypted)
    /\ PaddingOk(w.iv)
ParseDatagram(w) ==
    [encrypted |-> b64decode(w.encrypted), iv |-> b64decode(w.iv),
     sequence |-> FromDigits(w.sequence)]

\* datagrams that are no envelope: no JSON, a JSON object without the
\* sequence field, base64 text cut short
BadDatagrams ==
    {[kind |-> "not_json", fields |-> {}, encrypted |-> <<>>, iv |-> <<>>,
      sequence |-> <<0>>],
     [kind |-> "object", fields |-> {"encrypted", "iv"}, encrypted |-> <<>>,
      iv |-> <<>>, sequence |-> <<0>>],
     [kind |-> "object", fields |-> {"encrypted", "iv", "sequence"},
      encrypted |-> <<19, 16>>, iv |-> b64encode([i \in 1..16 |-> 0]),
      sequence |-> <<0>>]}

\* what decrypt and decode make of a parsed envelope
AudioOutcomes == {"decrypt_failed", "decode_failed", "decoded"}

\* the loop "packet = get_next_packet(); if not packet: break; write_chunk"
RECURSIVE PlayAll(_, _)
PlayAll(b, t) ==
    LET r == get_next_packet(b, t) IN
    IF r.ret = None THEN b ELSE PlayAll(r.jb, t)

\* _handle_audio1(data): decrypt, decode, add_packet, play what is due; the
\* jitter buffer after it
handle_audio(b, data, o, t) ==
    IF o # "decoded" THEN b
    ELSE PlayAll(add_packet(b, data.sequence, 1, t).jb, t)

\* _handle_packet(data, addr) with the callback set: the client and the
\* jitter buffer after it; kind is "own" for the datagram send_audio built
handle_packet(c, b, w, kind, o, t) ==
    IF ~Parses(w)
    THEN [vc |-> [c EXCEPT !.rx = "unparsable", !.got = NoEnvelope,
                           !.audio = "none", !.dropped = TRUE],
          jb |-> b]
    ELSE LET audio_data == ParseDatagram(w) IN
         [vc |-> [c EXCEPT !.packets_received = @ + 1, !.rx = kind,
                           !.got = audio_data, !.audio = o,
                           !.dropped = IF o # "decoded" THEN TRUE ELSE @],
          jb |-> handle_audio(b, audio_data, o, t)]

\* datagrams sent and received by the client
MaxPackets == 3

clientRest == <<now, emitted, lastCall, lockVars, drainVars, relayVars, sigVars,
                codecVars, udp, session, fh, played, lateVars>>

\* send_audio(audio_data): the datagram is built and handed to the socket,
\* whose send succeeds or not
SendAudio ==
    /\ \E e \in Envelopes, success \in BOOLEAN :
          /\ vc.packets_sent < MaxPackets
          /\ vc' = [vc EXCEPT !.env = e, !.wire = BuildDatagram(e),
                              !.packets_sent = IF success THEN @ + 1 ELSE @,
                              !.rx = "none", !.got = NoEnvelope,
                              !.audio = "none"]
    /\ UNCHANGED <<jb, clientRest>>

\* the receive worker calls _handle_packet with the datagram built last, as
\* relayed back by the server, or with a datagram that is no envelope
HandlePacket ==
    /\ \E w \in {vc.wire} \cup BadDatagrams, o \in AudioOutcomes :
          LET r == handle_packet(vc, jb, w, "own", o, now) IN
          /\ w # NoWire
          /\ vc.packets_received < MaxPackets
          /\ vc' = r.vc
          /\ jb' = r.jb
    /\ UNCHANGED clientRest

\* VoIPTest's JitterBuffer, scaled down to max_size 2 and min_size 1
ClientInit == JBInit({2}, {1}, {TRUE})

ClientNext == SendAudio \/ HandlePacket \/ Tick(FirstInstant + 16)

SpecClient == ClientInit /\ [][ClientNext]_vars

(***************************************************************************)
(* AudioEncryption: AES in CFB mode with a fresh IV for every packet.  The *)
(* block cipher is a keyed function of the shift register: CFB never       *)
(* inverts it, so which function it is does not enter the mode's algebra.  *)
(***************************************************************************)
\* exclusive or of two symbols
Xor(a, b) == (a + b) % 2
\* the first symbol of the block cipher applied to the shift register
AES(key, reg) == ((key \div 2) * reg[1] + (key % 2) * reg[2] + reg[1] * reg[2] + key) % 2

\* cipher.encrypt(data) of AES.new(key, AES.MODE_CFB, iv): symbol by symbol,
\* the ciphertext symbol is shifted into the register
RECURSIVE CfbEncrypt(_, _, _)
CfbEncrypt(key, reg, data) ==
    IF data = <<>> THEN <<>>
    ELSE LET c == Xor(data[1], AES(key, reg)) IN
         <<c>> \o CfbEncrypt(key, Append(Tail(reg), c), Tail(data))
\* cipher.decrypt(data) of AES.new(key, AES.MODE_CFB, iv)
RECURSIVE CfbDecrypt(_, _, _)
CfbDecrypt(key, reg, data) ==
    IF data = <<>> THEN <<>>
    ELSE <<Xor(data[1], AES(key, reg))>>
         \o CfbDecrypt(key, Append(Tail(reg), data[1]), Tail(data))

\* encrypt(data) with the IV that get_random_bytes(16) returned
encrypt(self, data, iv) ==
    [encrypted |-> CfbEncrypt(self.derived_key, iv, data), iv |-> iv]
\* faulty variant: the IV drawn at construction is used, not the packet's
decrypt_OwnIv(self, encrypted_data, iv) ==
    IF Len(iv) # BlockLen THEN NoBytes
    ELSE CfbDecrypt(self.derived_key, self.iv, encrypted_data)
\* decrypt(encrypted_data, iv): AES.new raises on an IV of the wrong length,
\* and the except branch returns None
decrypt(self, encrypted_data, iv) ==
    IF Len(iv) # BlockLen THEN NoBytes
    ELSE CfbDecrypt(self.derived_key, iv, encrypted_data)

\* the longest plaintext, the plaintexts, the IVs drawn and the keys and
\* salts given
MaxPlain == 3
RECURSIVE SeqsUpTo(_)
SeqsUpTo(n) ==
    IF n = 0 THEN {<<>>}
    ELSE LET shorter == SeqsUpTo(n - 1) IN
         shorter \cup {Append(q, x) : q \in {r \in shorter : Len(r) = n - 1},
                                       x \in Symbols}
Plaintexts == SeqsUpTo(MaxPlain)
BlockIVs == {<<0, 0>>, <<0, 1>>, <<1, 0>>, <<1, 1>>}
KeyBytes == {0, 1}
Salts == {0, 1}

cryptoRest == <<oldVars, played, vc, longrun, sigstop, sc, us>>

\* encrypted, iv = encrypt(data)
Encrypt ==
    /\ \E data \in Plaintexts, iv \in BlockIVs :
          LET r == encrypt(enc, data, iv) IN
          enc' = [enc EXCEPT !.plain = data, !.encrypted = r.encrypted,
                             !.sent_iv = r.iv, !.used_iv = <<>>, !.out = NoBytes,
                             !.op = "encrypt", !.rekeyed = FALSE]
    /\ UNCHANGED cryptoRest

\* decrypt(encrypted, iv) of what encrypt returned last, or with an IV that
\* lost its last byte on the way
Decrypt ==
    /\ enc.op # "none"
    /\ \E iv \in {enc.sent_iv, SubSeq(enc.sent_iv, 1, BlockLen - 1)} :
          enc' = [enc EXCEPT !.used_iv = iv,
                             !.out = decrypt(enc, enc.encrypted, iv),
                             !.op = "decrypt"]
    /\ UNCHANGED cryptoRest

\* set_key(key, salt)
SetKey ==
    /\ \E key \in KeyBytes, salt \in Salts :
          enc' = [enc EXCEPT !.key = key, !.salt = salt,
                             !.derived_key = PBKDF2(key, salt),
                             !.rekeyed = @ \/ key # enc.key \/ salt # enc.salt]
    /\ UNCHANGED cryptoRest

EarlyIdle ==
    /\ JBIdle
    /\ RelayIdle
    /\ SigIdle
    /\ CodecIdle
    /\ UdpIdle
    /\ SessionIdle
    /\ FramesIdle
    /\ PlayedIdle
    /\ ClientIdle

CryptoInit ==
    /\ EarlyIdle
    /\ LongRunIdle
    /\ SigStopIdle
    /\ SigClientIdle
    /\ SocketIdle
    /\ \E key \in KeyBytes, salt \in Salts, iv \in {<<0, 0>>, <<1, 0>>} :
          enc = NewAudioEncryption(key, salt, iv)

CryptoNext == Encrypt \/ Decrypt \/ SetKey

SpecCrypto == CryptoInit /\ [][CryptoNext]_vars

\* ---------------------------------------------------------------------------
\* VoIPTest.run, long after the call began: the counters near 2^32

\* 2^32 - 1, and whether a number is an unsigned 32-bit value
U32Max == WideInt(Limb - 1, Limb - 1)
FitsU32(n) == n.hi < Limb
\* self.next_sequence1 += 1 on a Python int: the carry goes into the upper
\* digit, which has no upper end
AdvanceWide(n) ==
    IF n.lo = Limb - 1 THEN WideInt(n.hi + 1, 0) ELSE WideInt(n.hi, n.lo + 1)

\* one direction of one pass, as Direction: d is the counter, the sequence
\* sent last and the counter before its last increment
DirectionWide(d, o) ==
    IF o \in {"no_data", "encode_failed", "encrypt_failed"} THEN d
    ELSE [next_sequence |-> AdvanceWide(d.next_sequence),
          sent |-> IF o = "sent" THEN d.next_sequence ELSE d.sent,
          was |-> d.next_sequence]

\* passes of the loop followed, and the values the counters have reached
\* when the model picks the call up
MaxLongPasses == 3
LongStarts == {WideInt(Limb - 1, Limb - 2), U32Max}

longRest == <<oldVars, played, vc, enc, sigstop, sc, us>>

\* one pass of the while loop: client 1's chunk, then client 2's
LongRunPass ==
    /\ \E o1 \in Outcomes, o2 \in Outcomes :
          LET d1 == DirectionWide([next_sequence |-> longrun.next_sequence1,
                                   sent |-> longrun.sent1, was |-> longrun.was1], o1)
              d2 == DirectionWide([next_sequence |-> longrun.next_sequence2,
                                   sent |-> longrun.sent2, was |-> longrun.was2], o2)
          IN  /\ longrun.passes < MaxLongPasses
              /\ longrun' = [passes |-> longrun.passes + 1,
                             next_sequence1 |-> d1.next_sequence,
                             next_sequence2 |-> d2.next_sequence,
                             sent1 |-> d1.sent, sent2 |-> d2.sent,
                             was1 |-> d1.was, was2 |-> d2.was]
    /\ UNCHANGED longRest

LongRunInit ==
    /\ EarlyIdle
    /\ CryptoIdle
    /\ SigStopIdle
    /\ SigClientIdle
    /\ SocketIdle
    /\ \E n1 \in LongStarts, n2 \in LongStarts : longrun = NewLongRun(n1, n2)

LongRunNext == LongRunPass

SpecLongRun == LongRunInit /\ [][LongRunNext]_vars

(***************************************************************************)
(* SignalingServer.stop() against the worker threads (signaling.py).  The  *)
(* name registry is a dict, held as its entries in insertion order, and    *)
(* the iterator over its values behaves as the relay's: it raises          *)
(* RuntimeError when the number of keys differs from the number at its     *)
(* creation.  No method of SignalingServer takes a lock.                   *)
(***************************************************************************)
\* connections accepted in one run, and the names they register
MaxStopConns == 3
StopConns == 1..MaxStopConns
StopNames == {"alice", "bob"}

BoundNames(d) == {d[i].id : i \in 1..Len(d)}
BoundSocks(d) == {d[i].sock : i \in 1..Len(d)}
NameSlot(d, id) == CHOOSE i \in 1..Len(d) : d[i].id = id
\* self.clients[client_id] = client_socket: a new key goes to the end, a
\* bound one keeps its place
SetItem(d, id, c) ==
    IF id \in BoundNames(d) THEN [d EXCEPT ![NameSlot(d, id)].sock = c]
    ELSE Append(d, [id |-> id, sock |-> c])
\* del self.clients[client_id]
DelItem(d, id) == SelectSeq(d, LAMBDA e : e.id # id)

stopRest == <<oldVars, played, vc, enc, longrun, sc, us>>

\* _handle_client up to "self.clients[client_id] = client_socket": a
\* connection is accepted and its worker thread reads a REGISTER
StopRegister ==
    /\ sigstop.listening
    /\ \E c \in StopConns \ DOMAIN sigstop.worker, id \in StopNames :
          sigstop' = [sigstop EXCEPT
                         !.clients = SetItem(@, id, c),
                         !.open = @ \cup {c},
                         !.worker = [k \in DOMAIN @ \cup {c} |->
                                        IF k = c THEN id ELSE @[k]]]
    /\ UNCHANGED stopRest

\* _handle_client's finally, reached when recv returns nothing or raises or
\* is_running is found False: the worker's name is unbound if it is bound,
\* the socket is closed
StopWorkerExit ==
    /\ \E c \in DOMAIN sigstop.worker :
          LET id == sigstop.worker[c]
              d == sigstop.clients
              hit == id \in BoundNames(d)
              it == sigstop.stop
          IN  /\ sigstop.worker[c] # "gone"
              /\ sigstop' = [sigstop EXCEPT
                     !.clients = IF hit THEN DelItem(d, id) ELSE d,
                     !.open = @ \ {c},
                     !.worker[c] = "gone",
                     !.stop.pos = IF it.pc = "iterating" /\ hit /\ NameSlot(d, id) < it.pos
                                  THEN @ - 1 ELSE @]
    /\ UNCHANGED stopRest

\* stop() lines 152-153: the flag is cleared and the iteration over
\* self.clients.values() begins
StopBegin ==
    /\ sigstop.stop.pc = "no"
    /\ sigstop' = [sigstop EXCEPT
           !.is_running = FALSE,
           !.stop = [pc |-> "iterating", pos |-> 1, used |-> Len(sigstop.clients),
                     len |-> Len(sigstop.clients),
                     bound |-> BoundSocks(sigstop.clients)]]
    /\ UNCHANGED stopRest

\* stop() lines 153-155: one step of the iteration: the iterator raises
\* RuntimeError, which leaves stop(), or is exhausted, and the listening
\* socket is closed, or yields the next connection, which is closed
StopStep ==
    /\ sigstop.stop.pc = "iterating"
    /\ LET it == sigstop.stop
           d == sigstop.clients
       IN  IF it.used # Len(d) \/ (it.pos <= Len(d) /\ it.len = 0)
           THEN sigstop' = [sigstop EXCEPT !.stop.pc = "raised"]
           ELSE IF it.pos > Len(d)
           THEN sigstop' = [sigstop EXCEPT !.stop.pc = "returned", !.listening = FALSE]
           ELSE sigstop' = [sigstop EXCEPT !.open = @ \ {d[it.pos].sock},
                                           !.stop.pos = @ + 1, !.stop.len = @ - 1]
    /\ UNCHANGED stopRest

SigStopInit ==
    /\ EarlyIdle
    /\ CryptoIdle
    /\ LongRunIdle
    /\ SigClientIdle
    /\ SocketIdle
    /\ sigstop = NewSignalingServer

SigStopNext == StopRegister \/ StopWorkerExit \/ StopBegin \/ StopStep

SpecSigStop == SigStopInit /\ [][SigStopNext]_vars

(***************************************************************************)
(* SignalingClient X (signaling.py 159-235) against the server's accept    *)
(* loop and the worker of X's connection.  The server sends no reply to a  *)
(* REGISTER.  What recv returns to X is a message or bytes that do not     *)
(* parse (two messages read at once, for one).                             *)
(***************************************************************************)
\* messages sent to X by another registered client
MaxCalls == 2
RecvResults == {"message", "unparsable"}

clientSideRest == <<oldVars, played, vc, enc, longrun, sigstop, us>>

\* connect() lines 179-188: the TCP connection is made and the REGISTER
\* written; on the server the connection waits in the listen queue
AfterConnect(ok) == IF ok THEN "queued" ELSE "none"

\* connect(): returns True after starting the receive thread, or False
\* when socket.connect or send raised
Connect ==
    /\ sc.client = "new"
    /\ \E ok \in BOOLEAN :
          sc' = [sc EXCEPT !.client = IF ok THEN "connected" ELSE "failed",
                           !.is_running = ok,
                           !.loop = IF ok THEN "running" ELSE "none",
                           !.server = AfterConnect(ok)]
    /\ UNCHANGED clientSideRest

\* _server_loop lines 85-92: accept returns X's connection, the worker
\* thread is started
ServerAccept ==
    /\ sc.server = "queued"
    /\ sc' = [sc EXCEPT !.server = "awaiting"]
    /\ UNCHANGED clientSideRest

\* _handle_client lines 101-113: the worker reads the REGISTER and binds X
ServerRegister ==
    /\ sc.server = "awaiting"
    /\ sc' = [sc EXCEPT !.server = "registered"]
    /\ UNCHANGED clientSideRest

\* the worker of X's connection ends (an error on its side) and closes it
ServerCloses ==
    /\ sc.server \in {"awaiting", "registered"}
    /\ sc' = [sc EXCEPT !.server = "closed"]
    /\ UNCHANGED clientSideRest

\* _handle_message for a message with recipient X that another registered
\* client sent after X's connect() returned True: it is written to X's
\* socket if X is bound and else to none
PeerSends ==
    /\ sc.client = "connected"
    /\ sc.server # "closed"
    /\ sc.sent < MaxCalls
    /\ \E r \in RecvResults :
          sc' = [sc EXCEPT !.sent = @ + 1,
                           !.inbox = IF sc.server = "registered" THEN Append(@, r) ELSE @,
                           !.dropped = IF sc.server = "registered" THEN @ ELSE @ + 1]
    /\ UNCHANGED clientSideRest

\* _receive_loop lines 204-216, one pass: recv returns, the message is
\* parsed and handed to the callback of its type, which returns or raises;
\* the except clause ends the loop
ClientRecv ==
    /\ sc.loop = "running"
    /\ sc.is_running
    /\ sc.inbox # <<>>
    /\ \E raises \in BOOLEAN :
          LET failed == Head(sc.inbox) = "unparsable" \/ raises IN
          sc' = [sc EXCEPT !.inbox = Tail(@),
                           !.got = IF Head(sc.inbox) = "message" THEN @ + 1 ELSE @,
                           !.bad = @ \/ failed,
                           !.loop = IF failed THEN "ended" ELSE @,
                           !.is_running = IF failed THEN FALSE ELSE @]
    /\ UNCHANGED clientSideRest

\* _receive_loop lines 204-208 and 218: recv returns nothing after the
\* server closed the connection, or the loop finds is_running False
ClientLoopEnds ==
    /\ sc.loop = "running"
    /\ (sc.server = "closed" /\ sc.inbox = <<>>) \/ ~sc.is_running
    /\ sc' = [sc EXCEPT !.loop = "ended", !.is_running = FALSE]
    /\ UNCHANGED clientSideRest

\* disconnect()
Disconnect ==
    /\ sc.client = "connected"
    /\ sc' = [sc EXCEPT !.client = "disconnected", !.is_running = FALSE]
    /\ UNCHANGED clientSideRest

SigClientInit ==
    /\ EarlyIdle
    /\ CryptoIdle
    /\ LongRunIdle
    /\ SigStopIdle
    /\ SocketIdle
    /\ sc = NewSignalingClient

SigClientNext ==
    \/ Connect \/ ServerAccept \/ ServerRegister \/ ServerCloses \/ PeerSends
    \/ ClientRecv \/ ClientLoopEnds \/ Disconnect

SpecSigClient == SigClientInit /\ [][SigClientNext]_vars

(***************************************************************************)
(* UDPSocket.start_receiving (udp_socket.py 41-68) called more than once,  *)
(* also after stop().  start_receiving and stop are called by the thread   *)
(* that owns the socket, one call after the other; the workers run beside  *)
(* it.  The callback is an argument of the worker thread, not a field.     *)
(***************************************************************************)
socketRest == <<oldVars, played, vc, enc, longrun, sigstop, sc>>

\* callbacks given to start_receiving
Callbacks == {1, 2}
\* the workers started so far
Started == {i \in Workers : us.w[i].pc # "none"}

\* faulty variant: a worker is started whether or not one is running
AlreadyRunning_Ignored(u) == FALSE
\* "if self.is_running: return"
AlreadyRunning(u) == u.is_running

\* start_receiving(callback)
StartReceivingAgain ==
    /\ us.stop \in {"idle", "returned"}
    /\ us.starts < MaxStarts
    /\ \E cb \in Callbacks :
          us' = IF AlreadyRunning(us)
                THEN [us EXCEPT !.starts = @ + 1, !.noop = TRUE]
                ELSE [us EXCEPT !.starts = @ + 1, !.is_running = TRUE,
                                !.w[Cardinality(Started) + 1] =
                                    [pc |-> "head", cb |-> cb, data |-> 0]]
    /\ UNCHANGED socketRest

\* a peer's datagram reaches the socket's receive buffer
DatagramArrives ==
    /\ us.arrived < MaxDatagrams
    /\ us.socket = "open" \/ \E i \in Workers : us.w[i].pc = "recvfrom"
    /\ us' = [us EXCEPT !.arrived = @ + 1, !.buffer = Append(@, us.arrived + 1)]
    /\ UNCHANGED socketRest

\* while self.is_running: the worker enters recvfrom, which raises at once on
\* a closed socket, or leaves the loop
WorkerLoopHead ==
    /\ \E i \in Workers :
          /\ us.w[i].pc = "head"
          /\ us' = [us EXCEPT !.w[i].pc = IF ~us.is_running THEN "exited"
                                          ELSE IF us.socket = "closed" THEN "sleep"
                                          ELSE "recvfrom"]
    /\ UNCHANGED socketRest

\* recvfrom returns the oldest datagram to one of the workers blocked in it,
\* and the worker calls its callback
WorkerCalls ==
    /\ us.buffer # <<>>
    /\ \E i \in Workers :
          /\ us.w[i].pc = "recvfrom"
          /\ us' = [us EXCEPT !.w[i].pc = "callback", !.w[i].data = Head(us.buffer),
                              !.buffer = Tail(@),
                              !.handed = Append(@, [by |-> i, cb |-> us.w[i].cb,
                                                    data |-> Head(us.buffer)])]
    /\ UNCHANGED socketRest

\* the callback returns, or raises into the except clause
CallbackOver ==
    /\ \E i \in Workers, raises \in BOOLEAN :
          /\ us.w[i].pc = "callback"
          /\ us' = [us EXCEPT !.w[i].pc = IF raises THEN "sleep" ELSE "head",
                              !.w[i].data = 0]
    /\ UNCHANGED socketRest

\* recvfrom raises in a blocked worker (woken by close where the platform
\* does that, or an error on the open socket)
WorkerRecvRaises ==
    /\ \E i \in Workers :
          /\ us.w[i].pc = "recvfrom"
          /\ us' = [us EXCEPT !.w[i].pc = "sleep"]
    /\ UNCHANGED socketRest

\* time.sleep(0.1) is over
WorkerSleepDone ==
    /\ \E i \in Workers :
          /\ us.w[i].pc = "sleep"
          /\ us' = [us EXCEPT !.w[i].pc = "head"]
    /\ UNCHANGED socketRest

\* stop(): the flag is cleared; join(timeout=1.0) returns when the worker
\* started last has ended or after 1 s; then the socket is closed
SocketStop ==
    /\ us.stop = "idle"
    /\ us' = [us EXCEPT !.is_running = FALSE, !.stop = "join"]
    /\ UNCHANGED socketRest
SocketJoined ==
    /\ us.stop = "join"
    /\ us' = [us EXCEPT !.stop = "close"]
    /\ UNCHANGED socketRest
SocketClose ==
    /\ us.stop = "close"
    /\ us' = [us EXCEPT !.socket = "closed", !.stop = "returned"]
    /\ UNCHANGED socketRest

SocketInit ==
    /\ EarlyIdle
    /\ CryptoIdle
    /\ LongRunIdle
    /\ SigStopIdle
    /\ SigClientIdle
    /\ us = NewSocket

SocketNext ==
    \/ StartReceivingAgain \/ DatagramArrives \/ WorkerLoopHead \/ WorkerCalls
    \/ CallbackOver \/ WorkerRecvRaises \/ WorkerSleepDone
    \/ SocketStop \/ SocketJoined \/ SocketClose

SpecSocket == SocketInit /\ [][SocketNext]_vars

(***************************************************************************)
(* Claims about the jitter buffer.                                         *)
(***************************************************************************)
HeldKeys == Keys(jb.packet_queue)
GatesPass == EnoughPackets(jb) /\ DelayElapsed(jb, now)

\* C4: between two resets, every payload get_next_packet returns has a
\* sequence number strictly greater than that of the payload returned before
\* it, whatever add_packet calls (duplicate, late, stale) are interleaved.
C4_EmissionsIncrease == emitted.seq # -1 => emitted.seq > emitted.prev

\* C4 witness: a second payload has been returned after a first one
C4_Witness == emitted.prev >= 0 /\ emitted.seq > emitted.prev

\* C6 (the claim as stated): when both gates pass, next_sequence is not held
\* and a later sequence is held, get_next_packet returns a held payload.
C6_GapNeverStalls ==
    (GatesPass /\ jb.next_sequence \notin HeldKeys
       /\ \E k \in HeldKeys : k > jb.next_sequence)
    => get_next_packet(jb, now).ret # None

\* C8: when the gates pass and every held sequence is above next_sequence,
\* get_next_packet returns the smallest held sequence m, removes it, and
\* leaves next_sequence = m + 1.
C8_GapEmitsSmallest ==
    (GatesPass /\ HeldKeys # {} /\ \A k \in HeldKeys : k > jb.next_sequence)
    => LET r == get_next_packet(jb, now)
           m == MinKey(jb.packet_queue)
       IN  /\ r.ret.seq = m
           /\ r.jb.next_sequence = m + 1
           /\ m \notin Keys(r.jb.packet_queue)

\* C8 witness: after an earlier emission, a sequence beyond a gap was
\* returned and next_sequence is one past it
C8_Witness ==
    /\ emitted.prev >= 0
    /\ emitted.seq > emitted.prev + 1
    /\ jb.next_sequence = emitted.seq + 1

\* C9: add_packet(seq) with a last_sequence observed and
\* seq < last_sequence - max_size returns False and changes no field; any
\* other add_packet returns True and leaves seq stored with its payload and
\* arrival time.
C9_StaleDiscarded ==
    \A s \in CallSeqNums, d \in Payloads :
        LET r == add_packet(jb, s, d, now) IN
        IF jb.last_sequence # -1 /\ s < jb.last_sequence - jb.max_size
        THEN r.ret = FALSE /\ r.jb = jb
        ELSE /\ r.ret = TRUE
             /\ s \in Keys(r.jb.packet_queue)
             /\ DataOf(r.jb.packet_queue, s) = d
             /\ s \in DOMAIN r.jb.packet_times /\ r.jb.packet_times[s] = now

\* C9 witness: the last add_packet call was refused as stale, and one before
\* it at the boundary last_sequence - max_size is still held
C9_Witness ==
    /\ lastCall.seq >= 0 /\ ~lastCall.ok
    /\ lastCall.seq < jb.last_sequence - jb.max_size
    /\ (jb.last_sequence - jb.max_size) \in HeldKeys

Replaced(q, s, d) ==
    [i \in 1..Len(q) |-> IF q[i].seq = s THEN [seq |-> s, data |-> d] ELSE q[i]]

EmitsStoredOnce ==
    LET r == get_next_packet(jb, now) IN
    r.ret # None =>
       /\ r.ret.seq \in HeldKeys
       /\ r.ret.data = DataOf(jb.packet_queue, r.ret.seq)
       /\ r.ret.seq \notin Keys(r.jb.packet_queue)
       /\ r.ret.seq > emitted.seq

\* C10 (amended): add_packet with a held sequence that is not stale replaces
\* that entry's payload and changes neither the number of entries nor any
\* other entry; add_packet with a held sequence that has become stale
\* (sequence < last_sequence - max_size) keeps the earlier payload. A payload
\* get_next_packet returns is the one stored under its sequence, the entry is
\* removed, and the sequence is above every sequence returned before.
C10_DuplicateReplacesUnlessStale ==
    /\ \A s \in HeldKeys, d \in Payloads :
          add_packet(jb, s, d, now).jb.packet_queue =
             IF s < jb.last_sequence - jb.max_size
             THEN jb.packet_queue ELSE Replaced(jb.packet_queue, s, d)
    /\ EmitsStoredOnce

\* C10 witness: the last add_packet replaced a different payload held under
\* its sequence, and that sequence has since been returned with the later one
C10_Witness ==
    /\ lastCall.ok /\ lastCall.old # 0 /\ lastCall.old # lastCall.data
    /\ lastCall.seq \notin HeldKeys
    /\ emitted.seq = lastCall.seq /\ emitted.data = lastCall.data

\* C10 (as stated): add_packet with any held sequence replaces that entry's
\* payload with the later one and leaves the number of entries unchanged, and
\* the sequence is emitted at most once with the stored payload.
C10_DuplicateReplaces ==
    /\ \A s \in HeldKeys, d \in Payloads :
          add_packet(jb, s, d, now).jb.packet_queue = Replaced(jb.packet_queue, s, d)
    /\ EmitsStoredOnce

\* C5: whenever the JitterBuffer's lock is free, the packet map holds at most
\* max_size entries, for every interleaving of add_packet, get_next_packet
\* and reset calls made by two threads.
C5_AtMostMaxSizeAtRest == lock = Free => Len(jb.packet_queue) <= jb.max_size

\* C5 witness: the lock is free and the map is full after an add_packet call
\* evicted an entry (more arrival times than entries, nothing returned yet)
C5_Witness ==
    /\ lock = Free /\ thr = [t \in Threads |-> Idle]
    /\ Len(jb.packet_queue) = jb.max_size
    /\ Cardinality(DOMAIN jb.packet_times) > jb.max_size
    /\ emitted = NothingEmitted

RECURSIVE Ascending(_)
Ascending(S) ==
    IF S = {} THEN <<>>
    ELSE LET m == CHOOSE x \in S : \A y \in S : x <= y
         IN  <<m>> \o Ascending(S \ {m})

\* C7: at most max_size distinct, non-stale sequences >= next_sequence,
\* inserted in any order into a buffer with min_size = 1, are all returned
\* by the drain that follows, in ascending order, and nothing stays held.
C7_DrainsAscending ==
    phase = "done" => drained = Ascending(Range(arrivals)) /\ jb.packet_queue = <<>>

\* C7 witness: three packets arrived with the highest first and the drain
\* has returned them lowest first
C7_Witness ==
    /\ phase = "done" /\ Len(arrivals) = 3 /\ Len(drained) = 3
    /\ arrivals[1] > arrivals[2] /\ arrivals[1] > arrivals[3] /\ arrivals[2] < arrivals[3]
    /\ drained[1] < drained[2] /\ drained[2] < drained[3]

(***************************************************************************)
(* Claims about the relay.                                                 *)
(***************************************************************************)
SendsTo(t) == {i \in 1..Len(fan.sent) : fan.sent[i].to = t}

\* C1 (the claim as stated): once a datagram from S has been handled, exactly
\* one send of its payload was attempted to every address other than S that
\* was a key of the registry when it was received, and none to any other
\* address.
C1_FanoutToEveryOther ==
    fan.over =>
       /\ \A t \in Addrs :
             Cardinality(SendsTo(t)) = IF t \in fan.keys \ {fan.src} THEN 1 ELSE 0
       /\ \A i \in 1..Len(fan.sent) : fan.sent[i].data = fan.data

(***************************************************************************)
(* Claims about the signaling server.                                      *)
(***************************************************************************)
\* C2 (the claim as stated): a message from a registered connection whose
\* recipient X is the name of a registered client (the open connection that
\* registered X last) is written to that client's connection, and a message
\* is written only to a connection registered under its recipient.
C2_ExactlyOwnMessages ==
    handled # NoMessage =>
       /\ (handled.recipient # NoName /\ handled.owner # NoConn) => handled.to = handled.owner
       /\ handled.to # NoConn =>
             /\ handled.recipient # NoName
             /\ conn[handled.to].st = "registered"
             /\ conn[handled.to].id = handled.recipient

\* C3: right after a REGISTER for a name, the registry binds that name to
\* the registering connection and to no other, also when the name was bound
\* to another connection before; in every state a name is bound to at most
\* one connection.
C3_ReRegistrationReplaces ==
    /\ lastReg # NoReg => BoundTo(sigClients, lastReg.name) = {lastReg.conn}
    /\ \A n \in Names : Cardinality(BoundTo(sigClients, n)) <= 1

\* C3 witness: a REGISTER has just replaced another connection's binding
C3_Witness ==
    /\ lastReg.replaced
    /\ <<lastReg.name, lastReg.conn>> \in sigClients
    /\ \E c \in Conns \ {lastReg.conn} : conn[c].st = "registered" /\ conn[c].id = lastReg.name

(***************************************************************************)
(* Claims about reset and the adaptive delay.                              *)
(***************************************************************************)
Fresh(b) == NewJitterBuffer(b.max_size, b.min_size, b.max_delay, b.adaptive)

\* C11: reset() leaves every field of the JitterBuffer equal to that of a
\* buffer just constructed with the same parameters, whatever state it is
\* called in; every later operation being a function of these fields and of
\* the clock, the buffer then behaves as a fresh one.
C11_ResetEqualsFresh ==
    /\ reset(jb) = Fresh(jb)
    /\ \A s \in {0, 1} :
          /\ add_packet(reset(jb), s, 1, now) = add_packet(Fresh(jb), s, 1, now)
          /\ get_next_packet(add_packet(reset(jb), s, 1, now).jb, now)
               = get_next_packet(add_packet(Fresh(jb), s, 1, now).jb, now)

\* C11 witness: a buffer that holds a packet, has returned one, and whose
\* jitter estimate and delay have moved, is reset to the fresh state
C11_Witness ==
    /\ jb.packet_queue # <<>> /\ jb.next_sequence > 0 /\ jb.last_playback_time > 0
    /\ jb.jitter > 0 /\ jb.current_delay > target_delay
    /\ reset(jb) = Fresh(jb)

\* what one add_packet(s) does to current_delay
DelayStepOK(s) ==
    LET r == add_packet(jb, s, 1, now).jb
        updated == ~IsStale(jb, s) /\ (s - 1) \in DOMAIN jb.packet_times
        grown == Min((jb.current_delay * (100 + adaptation_rate)) \div 100, jb.max_delay)
        shrunk == Max((jb.current_delay * (100 - adaptation_rate)) \div 100, target_delay)
    IN  r.current_delay = IF jb.adaptive /\ updated
                          THEN (IF r.jitter > target_delay THEN grown ELSE shrunk)
                          ELSE jb.current_delay

\* C12 (amended): for a buffer constructed with max_delay >= target_delay,
\* target_delay <= current_delay <= max_delay in every state; for every
\* buffer, a jitter update of an adaptive buffer sets current_delay to
\* current_delay * (1 + adaptation_rate) capped at max_delay when the new
\* estimate exceeds target_delay and to current_delay * (1 - adaptation_rate)
\* floored at target_delay otherwise, and add_packet leaves current_delay
\* alone when the buffer is not adaptive or no estimate is made.
C12_DelayWithinBoundsIfMaxAboveTarget ==
    /\ jb.max_delay >= target_delay =>
          (target_delay <= jb.current_delay /\ jb.current_delay <= jb.max_delay)
    /\ \A s \in {0, 1} : DelayStepOK(s)
    /\ ~jb.adaptive => jb.current_delay = target_delay

\* C12 witness: the delay of an adaptive buffer has grown to the cap
C12_Witness ==
    /\ jb.adaptive /\ jb.max_delay > target_delay
    /\ jb.current_delay = jb.max_delay /\ jb.jitter > target_delay

\* C12 (as stated): target_delay <= current_delay <= max_delay in every
\* reachable state of every buffer.
C12_DelayWithinBounds ==
    target_delay <= jb.current_delay /\ jb.current_delay <= jb.max_delay

(***************************************************************************)
(* Claims about signaling connections that are refused or end.             *)
(***************************************************************************)
\* C13: a connection whose first input is not a REGISTER is closed, and the
\* server has bound no name for it, called no callback and written the
\* message to no connection, also when a callback is registered for the
\* message's type and its recipient is bound.
C13_NonRegisterFirstRefused ==
    first # NoFirst =>
       /\ conn[first.conn] = NotAccepted
       /\ ~first.bound /\ ~first.called /\ first.to = NoConn

\* C13 witness: a CALL for a bound recipient, of a type with a callback, was
\* the first message of a connection and was refused
C13_Witness ==
    /\ first.type = "call" /\ first.recipient = "alice"
    /\ BoundTo(sigClients, "alice") # {} /\ "call" \in callbacks
    /\ conn[first.conn] = NotAccepted /\ ~first.called /\ first.to = NoConn

\* C14 (the claim as stated): the registry maps a name only to a connection
\* whose worker is running and registered under that name: once a registered
\* connection's worker has ended, no name is mapped to it.
C14_EndedConnectionUnbound ==
    \A p \in sigClients : conn[p[2]].st = "registered" /\ conn[p[2]].id = p[1]


\* C15 (amended): a message forwarded to a bound recipient is written with the
\* type, sender and recipient it was received with, and with the data it was
\* received with when that is a true value; absent, null, empty or zero data
\* is written as the empty object.
C15_ForwardedSameUnlessFalsyData ==
    txJson # NoJson =>
        /\ txJson.type = rxJson.type
        /\ txJson.sender = rxJson.sender
        /\ txJson.recipient = rxJson.recipient
        /\ (TruthyData(rxJson.data) /\ rxJson.data # Absent => txJson.data = rxJson.data)
        /\ (~(TruthyData(rxJson.data) /\ rxJson.data # Absent) => txJson.data = EmptyObject)
C15_Witness ==
    /\ rxJson.type = "ice_candidate"
    /\ rxJson.recipient = "alice"
    /\ rxJson.data = "{k: v}"
    /\ txJson = rxJson
\* C15 as stated: the forwarded document has the four fields as received
C15_ForwardedVerbatim ==
    txJson # NoJson =>
        /\ txJson.type = rxJson.type
        /\ txJson.sender = rxJson.sender
        /\ txJson.recipient = rxJson.recipient
        /\ txJson.data = rxJson.data

\* C16: after stop() on a UDPSocket whose worker is blocked in recvfrom, the
\* worker eventually leaves its loop, the socket is closed and stop() has
\* returned.
C16_StopEndsBlockedWorker ==
    (udp.stop = "join" /\ udp.receive_thread = "recvfrom" /\ udp.buffer = <<>>)
        ~> (udp.receive_thread = "exited" /\ udp.socket = "closed"
            /\ udp.stop = "returned")

\* the datagrams taken from the socket so far, in arrival order
Taken == [i \in 1..(udp.arrived - Len(udp.buffer)) |-> i]
Handed == IF udp.callback THEN udp.delivered ELSE udp.packet_queue
\* C17: the receive worker has left its loop only if stop() cleared the
\* running flag; whatever exceptions were caught, every datagram taken from
\* the socket was handed to the callback, in arrival order.
C17_WorkerEndsOnlyAfterStop ==
    /\ udp.receive_thread = "exited" => udp.stop # "idle" /\ ~udp.is_running
    /\ udp.receive_thread \in {"head", "recvfrom", "sleep", "exited"} => Handed = Taken
    /\ udp.receive_thread = "callback" => Handed \o <<udp.data>> = Taken
C17_Witness ==
    /\ udp.callback
    /\ udp.stop = "idle"
    /\ udp.errors = MaxErrors
    /\ udp.lastErr # NoError
    /\ udp.receive_thread = "head"
    /\ udp.delivered # <<>>
    /\ udp.delivered[Len(udp.delivered)] > udp.lastErr

StrictlyIncreasing(q) == \A i \in 1..Len(q), j \in 1..Len(q) : i < j => q[i] < q[j]
\* C18: in each direction of the send loop the sequence numbers of the
\* envelopes transmitted so far are strictly increasing, whatever frames were
\* dropped by a failed encode or encrypt and whatever sends failed, and the
\* next envelope's number is above all of them.
C18_TransmittedSequencesIncrease ==
    /\ StrictlyIncreasing(session.sent1)
    /\ StrictlyIncreasing(session.sent2)
    /\ \A i \in 1..Len(session.sent1) : session.sent1[i] < session.next_sequence1
    /\ \A i \in 1..Len(session.sent2) : session.sent2[i] < session.next_sequence2
C18_Witness ==
    /\ session.sent1 = <<0, 2>>
    /\ Len(session.sent2) = 2
    /\ session.frames_captured2 > session.next_sequence2

\* C19: the frames one FrameHandler has created carry strictly increasing
\* sequence numbers.
C19_CreatedSequencesIncrease == StrictlyIncreasing(fh.created)

\* C20: add_frame accepted the frame offered last exactly when its data has
\* frame_size x channels x 2 bytes and its sample rate and channel count are
\* the configured ones.
C20_AcceptedExactlyWhenSized ==
    fh.offered # NoFrame =>
        (fh.accepted <=> /\ fh.offered.len = fh.frame_size * fh.channels * 2
                         /\ fh.offered.sample_rate = fh.rate
                         /\ fh.offered.channels = fh.channels)

\* C25: whenever both gates pass and a payload is held, get_next_packet
\* returns one: the payload at next_sequence if it is held, otherwise the one
\* with the smallest sequence held; next_sequence is then one past the
\* sequence returned and last_playback_time is the time of the call.
C25_GatesPassEmits ==
    (GatesPass /\ HeldKeys # {}) =>
        LET r == get_next_packet(jb, now)
            s == IF jb.next_sequence \in HeldKeys THEN jb.next_sequence
                 ELSE MinKey(jb.packet_queue)
        IN  /\ r.ret # None
            /\ r.ret.seq = s
            /\ r.jb.next_sequence = s + 1
            /\ r.jb.last_playback_time = now

\* the sequences an add_packet call removed from the map
Evicted(b, s, r) == (Keys(b.packet_queue) \cup {s}) \ Keys(r.jb.packet_queue)
\* C27: the entries an add_packet removes because the map exceeds max_size
\* are the lowest sequences held: every removed sequence is below every
\* sequence kept.
C27_EvictsLowest ==
    \A s \in CallSeqNums :
        LET r == add_packet(jb, s, 1, now) IN
        r.ret => \A e \in Evicted(jb, s, r), k \in Keys(r.jb.packet_queue) : e < k

\* C28: with arrival times recorded for s - 1 and s, an add_packet(s + 1) that
\* arrives with the same spacing (D = 0) updates the jitter estimate J to
\* J + (|D| - J)/16, so J does not grow.
C28_ConstantSpacingKeepsJitter ==
    \A s \in SeqNums :
        (s >= 1 /\ s \in DOMAIN jb.packet_times /\ (s - 1) \in DOMAIN jb.packet_times
           /\ s + 1 >= jb.last_sequence - jb.max_size) =>
            LET spacing == jb.packet_times[s] - jb.packet_times[s - 1]
                r == add_packet(jb, s + 1, 1, jb.packet_times[s] + spacing)
                D == 0
            IN  /\ r.jb.jitter = jb.jitter + ((Abs(D) - jb.jitter) \div 16)
                /\ r.jb.jitter <= jb.jitter

\* what get_next_packet does when called now: a payload only if both gates
\* pass, and no change of the buffer when it returns nothing
GatedNow ==
    LET r == get_next_packet(jb, now) IN
    /\ r.ret # None => GatesPass
    /\ ~GatesPass => r.ret = None
    /\ r.ret = None => r.jb = jb
\* C26 (amended): get_next_packet returns a payload only if the map holds at
\* least min_size entries and at least current_delay has passed since the
\* last emission; otherwise it returns nothing and changes no buffer state.
\* Two consecutive emissions with no reset between them are at least
\* current_delay apart.
C26_PacedBetweenResets ==
    /\ GatedNow
    /\ (played.gap # NoPlay /\ ~played.across) => played.gap >= played.delay
C26_Witness ==
    /\ played.gap # NoPlay
    /\ ~played.across
    /\ played.gap = played.delay
    /\ played.at = now
    /\ EnoughPackets(jb)
    /\ get_next_packet(jb, now).ret = None
\* C26 as stated: two consecutive emissions are always at least
\* current_delay apart
C26_AlwaysPaced ==
    /\ GatedNow
    /\ played.gap # NoPlay => played.gap >= played.delay

\* C21: for every envelope, the datagram send_audio builds is a JSON object
\* with exactly the fields encrypted, iv and sequence, and _handle_packet
\* hands the audio callback the same ciphertext, IV and sequence from it.
C21_EnvelopeRoundTrip ==
    /\ vc.wire # NoWire =>
          /\ vc.wire.kind = "object"
          /\ vc.wire.fields = {"encrypted", "iv", "sequence"}
          /\ handle_packet(vc, jb, vc.wire, "own", "decoded", now).vc.got = vc.env
    /\ vc.rx = "own" => vc.got = vc.env
C21_Witness ==
    /\ vc.rx = "own"
    /\ vc.got = vc.env
    /\ vc.env.sequence = 65536
    /\ Len(vc.env.encrypted) = 5
    /\ vc.packets_received = 2


\* C23: a datagram that is no envelope changes neither the jitter buffer nor
\* packets_received and does not reach the audio callback; an envelope whose
\* decryption or decoding fails leaves the jitter buffer as it was; and after
\* a drop the datagram built by send_audio is still received, handed to the
\* callback and added to the jitter buffer.
C23_ErrorsAreLocal ==
    /\ \A w \in BadDatagrams, o \in AudioOutcomes :
          LET r == handle_packet(vc, jb, w, "other", o, now) IN
          /\ r.jb = jb
          /\ r.vc.packets_received = vc.packets_received
          /\ r.vc.got = NoEnvelope
    /\ vc.wire # NoWire =>
          \A o \in {"decrypt_failed", "decode_failed"} :
             handle_packet(vc, jb, vc.wire, "own", o, now).jb = jb
    /\ (vc.dropped /\ vc.wire # NoWire) =>
          LET r == handle_packet(vc, jb, vc.wire, "own", "decoded", now) IN
          /\ r.vc.got = vc.env
          /\ r.vc.packets_received = vc.packets_received + 1
          /\ r.jb = PlayAll(add_packet(jb, vc.env.sequence, 1, now).jb, now)
    /\ vc.rx = "unparsable" => vc.got = NoEnvelope
    /\ (vc.audio = "decoded" /\ vc.env.sequence >= jb.last_sequence - jb.max_size) =>
          jb.last_sequence >= vc.env.sequence

\* a datagram was dropped, and the valid one after it was received, decoded
\* and added to the jitter buffer
C23_Witness ==
    /\ vc.dropped
    /\ vc.rx = "own"
    /\ vc.audio = "decoded"
    /\ vc.got = vc.env
    /\ vc.packets_received = 1
    /\ vc.env.sequence = 10
    /\ jb.last_sequence = 10
\* C22: when decrypt is given the ciphertext and the IV that encrypt returned
\* for a plaintext, and set_key changed nothing in between, it returns that
\* plaintext.
C22_DecryptInvertsEncrypt ==
    (enc.op = "decrypt" /\ ~enc.rekeyed /\ enc.used_iv = enc.sent_iv) =>
        enc.out = enc.plain

\* a plaintext of the greatest length was encrypted to something else and decrypted
\* with a context whose own IV differs from the packet's
C22_Witness ==
    /\ enc.op = "decrypt"
    /\ ~enc.rekeyed
    /\ enc.used_iv = enc.sent_iv
    /\ Len(enc.plain) = MaxPlain
    /\ enc.encrypted # enc.plain
    /\ enc.iv # enc.sent_iv
    /\ enc.out = enc.plain
\* C24: no envelope carries a sequence number above 2^32 - 1, and the counter
\* that was 2^32 - 1 before its last increment is 0 after it.
C24_SequenceWraps ==
    /\ longrun.sent1 # NoWide => FitsU32(longrun.sent1)
    /\ longrun.sent2 # NoWide => FitsU32(longrun.sent2)
    /\ longrun.was1 = U32Max => longrun.next_sequence1 = WideInt(0, 0)
    /\ longrun.was2 = U32Max => longrun.next_sequence2 = WideInt(0, 0)
\* C29: while the fanout iteration of a datagram is in progress the registry
\* has the keys it had when the iteration began, and no fanout ends with the
\* iterator's RuntimeError.
C29_RegistryUnderMutex ==
    /\ rx.pc = "fanout" => LiveKeys(clients) = fan.keys
    /\ ~fan.raised
\* C30: while stop() iterates over the bound connections the registry is as
\* it was when the iteration began; stop() does not end with the iterator's
\* RuntimeError; and when stop() is over, every connection that was bound at
\* its call and the listening socket are closed.
C30_NameRegistryUnderMutex ==
    /\ sigstop.stop.pc = "iterating" => BoundSocks(sigstop.clients) = sigstop.stop.bound
    /\ sigstop.stop.pc # "raised"
    /\ sigstop.stop.pc \in {"returned", "raised"} =>
          /\ ~sigstop.listening
          /\ sigstop.stop.bound \cap sigstop.open = {}
\* C37: the arrival-time map has an entry only for sequences held in the
\* packet map, and so never more than max_size entries.
C37_TimesOnlyForHeld ==
    /\ DOMAIN jb.packet_times \subseteq Keys(jb.packet_queue)
    /\ Cardinality(DOMAIN jb.packet_times) <= jb.max_size
\* C34: a name whose newest registering connection is still open is bound to
\* that connection, whatever older connections of the name have done since.
C34_NewerBindingSurvives ==
    \A n \in Names :
       (latest[n] # NoConn /\ conn[latest[n]].st = "registered") =>
          BoundTo(sigClients, n) = {latest[n]}
\* C38: when the callback called for a message raised, the connection the
\* message came from is still registered and the message was written to the
\* connection bound to its recipient, if there is one.
C38_CallbackErrorConfined ==
    (handled # NoMessage /\ handled.raised) =>
       /\ conn[handled.from].st = "registered"
       /\ handled.bound => handled.to # NoConn

\* C31: for a handled message the callback of its type, if one is registered,
\* was called once, and before the forward if there was one; a message whose
\* recipient is absent or not bound was written to no connection.
C31_CallbackOnceThenForward ==
    handled # NoMessage =>
       LET steps == handled.steps
           calls == {i \in 1..Len(steps) : steps[i] = "callback"}
           forwards == {i \in 1..Len(steps) : steps[i] = "forward"}
       IN  /\ Cardinality(calls) = IF handled.type \in callbacks THEN 1 ELSE 0
           /\ \A i \in calls, j \in forwards : i < j
           /\ Cardinality(forwards) = IF handled.to # NoConn THEN 1 ELSE 0
           /\ ~handled.bound => handled.to = NoConn

\* a message for a name that is not bound was handled: its callback was
\* called and it was written nowhere
C31_Witness ==
    /\ handled # NoMessage
    /\ handled.recipient = "alice"
    /\ ~handled.bound
    /\ ~handled.raised
    /\ handled.steps = <<"callback">>
    /\ handled.to = NoConn
\* C35: every message that a registered client sent to X after X's
\* connect() returned True, while X's connection was open, was written to
\* X's connection.
C35_ConnectedMeansRegistered == sc.dropped = 0

\* C39: after a message that did not parse or whose callback raised, the
\* receive loop is still running unless disconnect() was called or the
\* server closed the connection.
C39_ReceiveLoopSurvives ==
    (sc.bad /\ sc.client = "connected" /\ sc.server # "closed") =>
        sc.loop = "running" /\ sc.is_running
\* C40: at most one worker of a UDPSocket is inside the callback at a time;
\* the callback invocations are in receive order; and as long as stop() has
\* not been called there is one worker at most and every invocation is of
\* the callback given to the first start_receiving.
C40_CallbacksOneAtATime ==
    /\ Cardinality({i \in Workers : us.w[i].pc = "callback"}) <= 1
    /\ \A i \in 1..Len(us.handed), j \in 1..Len(us.handed) :
          i < j => us.handed[i].data < us.handed[j].data
    /\ us.stop = "idle" =>
          /\ Cardinality(Started) <= 1
          /\ \A i \in 1..Len(us.handed) :
                us.handed[i].by = 1 /\ us.handed[i].cb = us.w[1].cb

\* start_receiving was called again while the socket was running, with no
\* stop() since, and two datagrams were handed to the only worker's callback
C40_Witness ==
    /\ us.stop = "idle"
    /\ us.noop
    /\ us.starts = MaxStarts
    /\ Cardinality(Started) = 1
    /\ Len(us.handed) = 2
    /\ us.w[1].pc = "callback"

\* C32: in every step, the relay's keys are the addresses that sent a datagram
\* or were the client argument of add_peer and were not removed by
\* remove_client since; a key disappears only by remove_client; and no
\* datagram is sent to an address that remove_client removed and that did
\* not send a datagram since.
C32_KeysFollowCalls ==
    [][/\ LiveKeys(clients') = seen'.known
       /\ LiveKeys(clients) \ LiveKeys(clients') # {} =>
             \E a \in seen'.quiet : clients' = remove_client(clients, a)
       /\ Len(fan'.sent) > Len(fan.sent) =>
             fan'.sent[Len(fan'.sent)].to \notin seen.quiet]_vars

\* C33: the address a datagram is sent to for an entry of the registry is the
\* same whatever the entry's set of peers is, and every address a datagram
\* was sent to has been a key of the registry: an address that is only a
\* member of sets of peers receives nothing.
C33_FanoutByKeysOnly ==
    /\ \A i \in 1..Len(clients), addr \in Addrs, peers \in SUBSET Addrs :
          route([clients[i] EXCEPT !.peers = peers], addr) = route(clients[i], addr)
    /\ \A i \in 1..Len(fan.sent) : fan.sent[i].to \in seen.known \cup seen.quiet

\* a datagram was handled to the end and sent to a client whose set of peers
\* holds an address that never was a key
C33_Witness ==
    /\ fan.over /\ ~fan.raised
    /\ \E i \in 1..Len(clients) :
          /\ clients[i].peers \ (seen.known \cup seen.quiet) # {}
          /\ clients[i].addr # fan.src
          /\ \E j \in 1..Len(fan.sent) : fan.sent[j].to = clients[i].addr

\* C36: once packets have stopped arriving at a jitter buffer that holds no
\* packet below next_sequence, the repeated get_next_packet calls eventually
\* leave the buffer empty, whatever min_size is.
C36_TailIsDrained ==
    (phase = "drain" /\ \A s \in HeldKeys : s >= jb.next_sequence)
        ~> (jb.packet_queue = <<>>)
====
